---- MODULE Spec2Model ----
(***************************************************************************)
(* Proxy virtual filesystem bridge (libs/wasix/rust/engine/src/fs.rs).     *)
(*                                                                         *)
(* The native ProxyFileSystem forwards every filesystem call to a set of   *)
(* closures (FsCallbacks).  The closures modelled here are the in-memory   *)
(* backend built by make_test_fs: a store HashMap<PathBuf, Vec<u8>> and a  *)
(* handle table HashMap<u64, (PathBuf, Vec<u8>, u64)>, each behind a       *)
(* std::sync::Mutex, and an AtomicU64 id allocator.                        *)
(*                                                                         *)
(* A u64 cursor is kept as its two's-complement (i64) reading: a value v   *)
(* below zero stands for the u64 value 2^64 + v.  The code itself moves    *)
(* between the two readings (`*pos as i64 + offset) as u64`), and inside   *)
(* the window the model explores the wrapping sums are exact.              *)
(***************************************************************************)
EXTENDS Integers, Sequences, FiniteSets, TLC

VARIABLES
    store,        \* HashMap<PathBuf, Vec<u8>> of make_test_fs
    sPoison,      \* the store Mutex is poisoned (a holder panicked)
    handles,      \* HashMap<u64, (PathBuf, Vec<u8>, u64)> of make_test_fs
    hPoison,      \* the handles Mutex is poisoned
    next_handle,  \* AtomicU64 id allocator
    files,        \* handle ids of the live ProxyFile objects
    closeCalls,   \* id -> number of handle_close calls made by Drop for ProxyFile
    issued,       \* id -> number of times FileOpener::open returned the id
    last,         \* the operation performed last, with what it returned
    scen,         \* position inside a scripted sequence of calls (a test body)
    tpc,          \* thread -> where the thread is inside a backend closure
    tloc,         \* thread -> the locals of the closure it is running
    sLock,        \* the thread holding the store Mutex ("" when free)
    hLock,        \* the thread holding the handles Mutex ("" when free)
    fault,        \* the FsError the closures in FsCallbacks answer with ("" : make_test_fs's own)
    seen,         \* the flags the backend's open received last, and the caller's options
    remote,       \* the wasm32 ProxyFileSystem: the callback object, whether it was built
    host,         \* what a metadata / read_dir closure supplied by the host returns
    cli,          \* the subagent CLI: the request directory and the spawn processes
    tty           \* the interactive terminal: the stdin copy task and its pipes

conc == <<tpc, tloc, sLock, hLock>>
ext == <<cli, tty>>
env == <<fault, seen, remote, host, ext>>
vars == <<store, sPoison, handles, hPoison, next_handle, files, closeCalls, issued,
          last, scen, conc, env>>

----------------------------------------------------------------------------
(* Bounds of the exploration *)

MaxLen == 2      \* longest buffer / file content explored
MaxOpens == 2    \* open calls per run (ids 1..MaxOpens)
MaxBack == 0     \* how far below zero a seek result may wrap
SeekMaxLen == 10 \* longest buffer, and farthest offset, of the seek exploration
SeekBack == 3    \* how far below zero a seek result of the seek exploration may go
MaxRuntimes == 2 \* create_runtime calls per run
MaxCalls == 2    \* callbacks invoked on one wasm32 ProxyFileSystem
MaxSpawns == 3   \* spawn commands per run of the subagent CLI
MaxChunks == 2   \* chunks the user writes to stdin per run of the terminal

Paths == {"/a", "/b"}
FilePaths == {"/a"}   \* the paths files are opened on when handles are explored
Bytes == {0, 1}
Threads == {"t1", "t2"}
Ids == 1..MaxOpens

RECURSIVE SeqsUpTo(_)
SeqsUpTo(n) ==
    IF n = 0 THEN {<<>>}
    ELSE LET S == SeqsUpTo(n - 1)
         IN  S \cup {Append(s, b) : s \in {t \in S : Len(t) = n - 1}, b \in Bytes}

Contents == SeqsUpTo(MaxLen)

Min(a, b) == IF a < b THEN a ELSE b
Max(a, b) == IF a > b THEN a ELSE b

(* HashMap::insert / HashMap::remove on a function with a finite domain *)
MapInsert(m, k, v) == [x \in DOMAIN m \cup {k} |-> IF x = k THEN v ELSE m[x]]
MapRemove(m, k) == [x \in DOMAIN m \ {k} |-> m[x]]

(* unsigned comparison of two u64 values given by their i64 readings *)
U64Less(a, b) == IF (a < 0) = (b < 0) THEN a < b ELSE b < 0
U64Min(a, b) == IF U64Less(a, b) THEN a ELSE b

(* a content of n bytes that is not uniform *)
Pattern(n) == [i \in 1..n |-> i % 2]

Zeros(n) == [i \in 1..n |-> 0]

(* Vec::resize(n, 0) for n >= len *)
Resize(data, n) == data \o Zeros(n - Len(data))

(* data[start..start + buf.len()].copy_from_slice(buf) *)
CopyFromSlice(data, start, buf) ==
    [i \in 1..Len(data) |->
        IF i > start /\ i <= start + Len(buf) THEN buf[i - start] ELSE data[i]]

----------------------------------------------------------------------------
(* OpenFlags / OpenOptionsConfig *)

Flags(r, w, c, cn, t, a) ==
    [read |-> r, write |-> w, create |-> c, create_new |-> cn, truncate |-> t, append |-> a]

NoFlags == Flags(FALSE, FALSE, FALSE, FALSE, FALSE, FALSE)
ReadOnly == Flags(TRUE, FALSE, FALSE, FALSE, FALSE, FALSE)
WriteCreate == Flags(FALSE, TRUE, TRUE, FALSE, FALSE, FALSE)
WriteTruncate == Flags(FALSE, TRUE, FALSE, FALSE, TRUE, FALSE)
CreateNewAppend == Flags(FALSE, TRUE, FALSE, TRUE, FALSE, TRUE)

Confs == {ReadOnly, WriteCreate, WriteTruncate, CreateNewAppend}

(* the OpenFlags that FileOpener::open builds from an OpenOptionsConfig *)
OpenFlags(conf) ==
    Flags(conf.read, conf.write, conf.create, conf.create_new, conf.truncate, conf.append)

(* the flags object that wasm_impl::ProxyFileSystem::open builds from its *)
(* five bool parameters: one property per Reflect::set                    *)
JsFlags(read, write, create, truncate, append) ==
    [read |-> read, write |-> write, create |-> create,
     truncate |-> truncate, append |-> append]

(* std::io::SeekFrom *)
SeekFrom(w, n) == [whence |-> w, n |-> n]

----------------------------------------------------------------------------
(* The backend closures of make_test_fs.  Each yields the value returned   *)
(* (res, out, ret) and the backend state it leaves.  res = "Panic" is an   *)
(* unwinding panic inside the closure: a Mutex guard alive at that point   *)
(* poisons its Mutex, and every later lock().unwrap() on it panics.        *)

Cur ==
    [res |-> "Ok", out |-> <<>>, ret |-> 0,
     store |-> store, sPoison |-> sPoison,
     handles |-> handles, hPoison |-> hPoison, next_handle |-> next_handle]

read_file(path) ==
    IF sPoison THEN [Cur EXCEPT !.res = "Panic"]
    ELSE IF path \in DOMAIN store THEN [Cur EXCEPT !.out = store[path]]
    ELSE [Cur EXCEPT !.res = "EntryNotFound"]

write_file(path, data) ==
    IF sPoison THEN [Cur EXCEPT !.res = "Panic"]
    ELSE [Cur EXCEPT !.store = MapInsert(store, path, data)]

(* a metadata that reports every file as empty *)
metadata_cb_empty(path) ==
    IF sPoison THEN [Cur EXCEPT !.res = "Panic"]
    ELSE IF path \in DOMAIN store THEN Cur ELSE [Cur EXCEPT !.res = "EntryNotFound"]

metadata_cb(path) ==
    IF sPoison THEN [Cur EXCEPT !.res = "Panic"]
    ELSE IF path \in DOMAIN store
         THEN [Cur EXCEPT !.ret = Len(store[path])]
         ELSE [Cur EXCEPT !.res = "EntryNotFound"]

(* a remove that empties the whole store *)
remove_file_cb_all(path) ==
    IF sPoison THEN [Cur EXCEPT !.res = "Panic"]
    ELSE IF path \in DOMAIN store
         THEN [Cur EXCEPT !.store = <<>>]
         ELSE [Cur EXCEPT !.res = "EntryNotFound"]

(* a remove that also closes the handles open on the path *)
remove_file_cb_close(path) ==
    IF sPoison THEN [Cur EXCEPT !.res = "Panic"]
    ELSE IF path \in DOMAIN store
         THEN [Cur EXCEPT !.store = MapRemove(store, path),
                          !.handles = [h \in {g \in DOMAIN handles : handles[g].path # path}
                                          |-> handles[h]]]
         ELSE [Cur EXCEPT !.res = "EntryNotFound"]

remove_file_cb(path) ==
    IF sPoison THEN [Cur EXCEPT !.res = "Panic"]
    ELSE IF path \in DOMAIN store
         THEN [Cur EXCEPT !.store = MapRemove(store, path)]
         ELSE [Cur EXCEPT !.res = "EntryNotFound"]

(* a rename that removes the entry at `to` before it looks for `from` *)
rename_cb_clobber(from, to) ==
    IF sPoison THEN [Cur EXCEPT !.res = "Panic"]
    ELSE IF from \in DOMAIN store
         THEN [Cur EXCEPT !.store = MapInsert(MapRemove(store, from), to, store[from])]
         ELSE [Cur EXCEPT !.res = "EntryNotFound", !.store = MapRemove(store, to)]

(* a rename that copies: the entry at `from` stays *)
rename_cb_copy(from, to) ==
    IF sPoison THEN [Cur EXCEPT !.res = "Panic"]
    ELSE IF from \in DOMAIN store
         THEN [Cur EXCEPT !.store = MapInsert(store, to, store[from])]
         ELSE [Cur EXCEPT !.res = "EntryNotFound"]

rename_cb(from, to) ==
    IF sPoison THEN [Cur EXCEPT !.res = "Panic"]
    ELSE IF from \in DOMAIN store
         THEN [Cur EXCEPT !.store = MapInsert(MapRemove(store, from), to, store[from])]
         ELSE [Cur EXCEPT !.res = "EntryNotFound"]

(* read_dir_cb: Ok(vec![]); create_dir_cb and remove_dir_cb: Ok(()) *)
read_dir_cb(path) == Cur
create_dir_cb(path) == Cur
remove_dir_cb(path) == Cur

(* an allocator that hands out the value without advancing *)
fetch_add_stuck(v) == [old |-> v, new |-> v]

(* AtomicU64::fetch_add(1, Relaxed): one atomic read-modify-write *)
fetch_add(v) == [old |-> v, new |-> v + 1]

(* an open that loads nothing from the store *)
open_cb_empty(path, flags) ==
    IF sPoison THEN [Cur EXCEPT !.res = "Panic"]
    ELSE LET id == fetch_add(next_handle).old
         IN  IF hPoison
             THEN [Cur EXCEPT !.res = "Panic", !.next_handle = fetch_add(next_handle).new,
                              !.sPoison = TRUE]
             ELSE [Cur EXCEPT !.ret = id, !.next_handle = fetch_add(next_handle).new,
                              !.handles = MapInsert(handles, id,
                                              [path |-> path, data |-> <<>>, pos |-> 0])]

open_cb(path, flags) ==
    IF sPoison THEN [Cur EXCEPT !.res = "Panic"]
    ELSE LET data == IF path \in DOMAIN store THEN store[path] ELSE <<>>
             id == fetch_add(next_handle).old
         IN  IF hPoison
             THEN \* fetch_add has run; the store guard is alive when h.lock().unwrap() panics
                  [Cur EXCEPT !.res = "Panic", !.next_handle = fetch_add(next_handle).new,
                              !.sPoison = TRUE]
             ELSE [Cur EXCEPT !.ret = id, !.next_handle = fetch_add(next_handle).new,
                              !.handles = MapInsert(handles, id,
                                              [path |-> path, data |-> data, pos |-> 0])]

(* a read that fetches the bytes from the store instead of the handle's buffer *)
handle_read_cb_refetch(handle, len) ==
    IF hPoison THEN [Cur EXCEPT !.res = "Panic"]
    ELSE IF handle \notin DOMAIN handles THEN [Cur EXCEPT !.res = "InvalidFd"]
    ELSE LET e == handles[handle]
             data == IF e.path \in DOMAIN store THEN store[e.path] ELSE <<>>
             start == e.pos
             end == U64Min(start + len, Len(data))
         IN  IF U64Less(end, start)
             THEN [Cur EXCEPT !.res = "Panic", !.hPoison = TRUE]
             ELSE [Cur EXCEPT !.out = SubSeq(data, start + 1, end),
                              !.handles = [handles EXCEPT ![handle].pos = end]]

handle_read_cb(handle, len) ==
    IF hPoison THEN [Cur EXCEPT !.res = "Panic"]
    ELSE IF handle \notin DOMAIN handles THEN [Cur EXCEPT !.res = "InvalidFd"]
    ELSE LET e == handles[handle]
             start == e.pos
             end == U64Min(start + len, Len(e.data))
         IN  IF U64Less(end, start)
             THEN \* data[start..end] with start > end panics, the handles guard alive
                  [Cur EXCEPT !.res = "Panic", !.hPoison = TRUE]
             ELSE [Cur EXCEPT !.out = SubSeq(e.data, start + 1, end),
                              !.handles = [handles EXCEPT ![handle].pos = end]]

(* a write that stays in the handle's buffer: no write-through to the store *)
handle_write_cb_local(handle, buf, checks) ==
    IF hPoison THEN [Cur EXCEPT !.res = "Panic"]
    ELSE IF handle \notin DOMAIN handles THEN [Cur EXCEPT !.res = "InvalidFd"]
    ELSE LET e == handles[handle]
             start == e.pos
             sum == start + Len(buf)
             grown == IF Len(e.data) < sum THEN Resize(e.data, sum) ELSE e.data
             data == CopyFromSlice(grown, start, buf)
         IN  IF start < 0 THEN [Cur EXCEPT !.res = "Panic", !.hPoison = TRUE]
             ELSE [Cur EXCEPT !.ret = Len(buf),
                              !.handles = [handles EXCEPT ![handle].data = data,
                                                          ![handle].pos = sum]]

(* a write past the end of the buffer that lands at the end (no gap) *)
handle_write_cb_nogap(handle, buf, checks) ==
    IF hPoison THEN [Cur EXCEPT !.res = "Panic"]
    ELSE IF handle \notin DOMAIN handles THEN [Cur EXCEPT !.res = "InvalidFd"]
    ELSE LET e == handles[handle]
             start == Min(e.pos, Len(e.data))
             sum == start + Len(buf)
             grown == IF Len(e.data) < sum THEN Resize(e.data, sum) ELSE e.data
         IN  IF e.pos < 0 \/ sPoison THEN [Cur EXCEPT !.res = "Panic", !.hPoison = TRUE]
             ELSE LET data == CopyFromSlice(grown, start, buf)
                  IN  [Cur EXCEPT !.ret = Len(buf),
                                  !.handles = [handles EXCEPT ![handle].data = data,
                                                              ![handle].pos = sum],
                                  !.store = MapInsert(store, e.path, data)]

(* a write that stores the bytes written, not the whole buffer *)
handle_write_cb_delta(handle, buf, checks) ==
    IF hPoison THEN [Cur EXCEPT !.res = "Panic"]
    ELSE IF handle \notin DOMAIN handles THEN [Cur EXCEPT !.res = "InvalidFd"]
    ELSE LET e == handles[handle]
             start == e.pos
             sum == start + Len(buf)
             grown == IF Len(e.data) < sum THEN Resize(e.data, sum) ELSE e.data
         IN  IF start < 0 \/ sPoison THEN [Cur EXCEPT !.res = "Panic", !.hPoison = TRUE]
             ELSE LET data == CopyFromSlice(grown, start, buf)
                  IN  [Cur EXCEPT !.ret = Len(buf),
                                  !.handles = [handles EXCEPT ![handle].data = data,
                                                              ![handle].pos = sum],
                                  !.store = MapInsert(store, e.path, buf)]

(* a write that fills the handle's buffer and then fails when the path has *)
(* no entry in the store                                                   *)
handle_write_cb_torn(handle, buf, checks) ==
    IF hPoison THEN [Cur EXCEPT !.res = "Panic"]
    ELSE IF handle \notin DOMAIN handles THEN [Cur EXCEPT !.res = "InvalidFd"]
    ELSE LET e == handles[handle]
             start == e.pos
             sum == start + Len(buf)
             grown == IF Len(e.data) < sum THEN Resize(e.data, sum) ELSE e.data
         IN  IF start < 0 THEN [Cur EXCEPT !.res = "Panic", !.hPoison = TRUE]
             ELSE LET data == CopyFromSlice(grown, start, buf)
                      h2 == [handles EXCEPT ![handle].data = data, ![handle].pos = sum]
                  IN  IF e.path \notin DOMAIN store
                      THEN [Cur EXCEPT !.res = "EntryNotFound", !.handles = h2]
                      ELSE [Cur EXCEPT !.ret = Len(buf), !.handles = h2,
                                       !.store = MapInsert(store, e.path, data)]

(* checks: the build has overflow checks (debug), so `start + buf.len()` panics *)
(* where a release build wraps.                                                *)
handle_write_cb(handle, buf, checks) ==
    IF hPoison THEN [Cur EXCEPT !.res = "Panic"]
    ELSE IF handle \notin DOMAIN handles THEN [Cur EXCEPT !.res = "InvalidFd"]
    ELSE LET e == handles[handle]
             start == e.pos
             sum == start + Len(buf)
             wraps == start < 0 /\ sum >= 0
             grown == IF U64Less(Len(e.data), sum) /\ sum >= 0
                      THEN Resize(e.data, sum) ELSE e.data
         IN  IF wraps /\ checks
             THEN [Cur EXCEPT !.res = "Panic", !.hPoison = TRUE]
             ELSE IF start < 0
             THEN \* resize beyond isize::MAX, or data[start..sum] with start > sum
                  [Cur EXCEPT !.res = "Panic", !.hPoison = TRUE,
                              !.handles = [handles EXCEPT ![handle].data = grown]]
             ELSE LET data == CopyFromSlice(grown, start, buf)
                      h2 == [handles EXCEPT ![handle].data = data, ![handle].pos = sum]
                  IN  IF sPoison
                      THEN [Cur EXCEPT !.res = "Panic", !.hPoison = TRUE, !.handles = h2]
                      ELSE [Cur EXCEPT !.ret = Len(buf), !.handles = h2,
                                       !.store = MapInsert(store, e.path, data)]

(* a seek that stops at the end of the buffer *)
handle_seek_cb_eof(handle, seek) ==
    IF hPoison THEN [Cur EXCEPT !.res = "Panic"]
    ELSE IF handle \notin DOMAIN handles THEN [Cur EXCEPT !.res = "InvalidFd"]
    ELSE LET e == handles[handle]
             new_pos == CASE seek.whence = "Start" -> seek.n
                          [] seek.whence = "End" -> Len(e.data) + seek.n
                          [] seek.whence = "Current" -> e.pos + seek.n
             pos == IF new_pos > Len(e.data) THEN Len(e.data) ELSE new_pos
         IN  [Cur EXCEPT !.ret = pos,
                         !.handles = [handles EXCEPT ![handle].pos = pos]]

(* a seek that stops at zero when the sum is below zero *)
handle_seek_cb_floor(handle, seek) ==
    IF hPoison THEN [Cur EXCEPT !.res = "Panic"]
    ELSE IF handle \notin DOMAIN handles THEN [Cur EXCEPT !.res = "InvalidFd"]
    ELSE LET e == handles[handle]
             new_pos == CASE seek.whence = "Start" -> seek.n
                          [] seek.whence = "End" -> Len(e.data) + seek.n
                          [] seek.whence = "Current" -> e.pos + seek.n
             pos == IF new_pos < 0 THEN 0 ELSE new_pos
         IN  [Cur EXCEPT !.ret = pos,
                         !.handles = [handles EXCEPT ![handle].pos = pos]]

(* a seek that measures End offsets from the cursor *)
handle_seek_cb_cursor(handle, seek) ==
    IF hPoison THEN [Cur EXCEPT !.res = "Panic"]
    ELSE IF handle \notin DOMAIN handles THEN [Cur EXCEPT !.res = "InvalidFd"]
    ELSE LET e == handles[handle]
             new_pos == CASE seek.whence = "Start" -> seek.n
                          [] seek.whence = "End" -> e.pos + seek.n
                          [] seek.whence = "Current" -> e.pos + seek.n
         IN  [Cur EXCEPT !.ret = new_pos,
                         !.handles = [handles EXCEPT ![handle].pos = new_pos]]

handle_seek_cb(handle, seek) ==
    IF hPoison THEN [Cur EXCEPT !.res = "Panic"]
    ELSE IF handle \notin DOMAIN handles THEN [Cur EXCEPT !.res = "InvalidFd"]
    ELSE LET e == handles[handle]
             new_pos == CASE seek.whence = "Start" -> seek.n
                          [] seek.whence = "End" -> Len(e.data) + seek.n
                          [] seek.whence = "Current" -> e.pos + seek.n
         IN  [Cur EXCEPT !.ret = new_pos,
                         !.handles = [handles EXCEPT ![handle].pos = new_pos]]

handle_close_cb(handle) ==
    IF hPoison THEN [Cur EXCEPT !.res = "Panic"]
    ELSE [Cur EXCEPT !.handles = MapRemove(handles, handle)]

----------------------------------------------------------------------------
(* What the caller of an operation got back *)

(* FsMetadata values and DirEntry lists a closure can return *)
FsMetadatas ==
    {[is_file |-> f, is_dir |-> d, len |-> n] : f \in BOOLEAN, d \in BOOLEAN, n \in 0..MaxLen}

DirEntries ==
    {[name |-> n, metadata |-> m] :
        n \in {"x", "y"},
        m \in {[is_file |-> TRUE, is_dir |-> FALSE, len |-> MaxLen],
                [is_file |-> FALSE, is_dir |-> TRUE, len |-> 0]}}

Listings ==
    {<<>>} \cup {<<a>> : a \in DirEntries} \cup {<<a, b>> : a \in DirEntries, b \in DirEntries}

(* the metadata and read_dir closures are make_test_fs's own *)
NoHost ==
    [slot |-> "",    \* the field of FsCallbacks the host supplied: metadata / read_dir /
                     \* handle_read
     meta |-> [is_file |-> TRUE, is_dir |-> FALSE, len |-> 0],
     entries |-> <<>>,
     data |-> <<>>]  \* the bytes a handle_read closure of the host returns

(* The closure a field of FsCallbacks holds: make_test_fs's own, whose     *)
(* outcome is e, or, when fault is set, a closure that answers Err(fault)   *)
(* and touches nothing.                                                     *)
Callback(e) == IF fault = "" THEN e ELSE [Cur EXCEPT !.res = fault]

(* The same for the metadata, read_dir and handle_read fields, which may   *)
(* also hold a closure of the host that returns Ok(host.meta) /            *)
(* Ok(host.entries) / Ok(host.data), whatever it is asked, and touches     *)
(* nothing.  meta is the FsMetadata of an Ok answer: make_test_fs returns  *)
(* FsMetadata { is_file: true, is_dir: false, len }.                       *)
HostCallback(slot, e) ==
    LET c == IF fault = "" /\ host.slot = slot
             THEN [Cur EXCEPT !.ret = host.meta.len,
                              !.out = IF slot = "handle_read" THEN host.data
                                      ELSE host.entries]
             ELSE Callback(e)
    IN  [e |-> c,
         meta |-> IF fault = "" /\ host.slot = slot THEN host.meta
                  ELSE [is_file |-> TRUE, is_dir |-> FALSE, len |-> c.ret]]

(* FsError's Display text, as e.to_string() gives it: a text, one per     *)
(* variant (the texts are those of the virtual_fs crate)                  *)
to_string(e) ==
    CASE e = "InvalidFd" -> "invalid fd"
      [] e = "EntryNotFound" -> "entry not found"
      [] e = "PermissionDenied" -> "permission denied"
      [] e = "Unsupported" -> "unsupported"
      [] OTHER -> "fs error"

(* io::Error::new(io::ErrorKind::Other, e.to_string()) *)
IoOther(e) == [kind |-> "Other", msg |-> to_string(e)]

Rec(op, h) ==
    [op |-> op, h |-> h,
     known |-> h \in DOMAIN handles,  \* the id was in the handle table at the call
     res |-> "Ok",    \* what the caller sees: Ok, an FsError, an io::ErrorKind, or Panic
     msg |-> "",      \* the text of an io::Error
     poll |-> "",     \* Ready / Pending for the poll_* methods
     out |-> <<>>,    \* bytes delivered to the caller
     ret |-> 0,       \* number delivered to the caller
     bres |-> "",     \* what the backend closure returned
     bret |-> 0,      \* number the backend closure returned
     calls |-> 0]     \* closures of FsCallbacks the operation invoked

IdleScen ==
    [name |-> "none", step |-> 0, p |-> "", b |-> <<>>, h |-> 0, h2 |-> 0, k |-> 0,
     seek |-> SeekFrom("", 0),
     q |-> "",      \* a second path of the sequence
     st |-> <<>>]   \* the store as it was when the sequence began

(* The 13 callbacks wasm_impl::ProxyFileSystem::new takes from the JS     *)
(* object, in the order it takes them                                     *)
Slots ==
    <<"fs_read_file", "fs_write_file", "fs_metadata", "fs_read_dir", "fs_create_dir",
      "fs_remove_dir", "fs_remove_file", "fs_rename", "fs_open", "fs_handle_read",
      "fs_handle_write", "fs_handle_seek", "fs_handle_close">>

(* A JsValue handed in as the callback object: an object whose slots hold *)
(* a function, nothing, or a value that is not a function; or null or     *)
(* undefined.                                                             *)
JsObject(slots) == [kind |-> "object", slots |-> slots]
JsNull == [kind |-> "null", slots |-> [i \in DOMAIN Slots |-> "absent"]]
JsUndefined == [kind |-> "undefined", slots |-> [i \in DOMAIN Slots |-> "absent"]]
JsNumber == [kind |-> "number", slots |-> [i \in DOMAIN Slots |-> "absent"]]

(* an object with all 13 callbacks, and the objects that differ from it in *)
(* one slot: the property is absent, holds a value that is not a function, *)
(* or has a getter that throws                                             *)
AllFunctions == [i \in DOMAIN Slots |-> "function"]

CallbackObjects ==
    {JsObject(AllFunctions)}
    \cup {JsObject([AllFunctions EXCEPT ![i] = v]) :
              i \in DOMAIN Slots, v \in {"absent", "value", "throws"}}
    \cup {JsNull, JsUndefined, JsNumber}

(* no wasm32 ProxyFileSystem has been asked for *)
NoRemote ==
    [state |-> "none",    \* none / built / failed / nofs (a runtime without filesystem)
     via |-> "",          \* new / create_runtime
     obj |-> JsUndefined, \* the callback object handed in
     err |-> "", slot |-> "",   \* the JsError of a failed construction
     calls |-> 0,         \* callbacks of the object invoked so far
     target |-> "",       \* the target_arch of the build: wasm32 / native
     next_id |-> 1]       \* lib.rs NEXT_ID

(* no open has reached a backend yet *)
NoneSeen == [variant |-> "", path |-> "", conf |-> NoFlags, flags |-> NoFlags]

IdleLoc == [path |-> "", data |-> <<>>, id |-> 0, ovl |-> FALSE]

Free == scen.name = "none"

(* the processes running the subagent CLI, and the ids generate_id forms *)
Procs == {"p1", "p2"}
SpawnIds == {<<"spawn", n>> : n \in 0..MaxSpawns}

Commit(e) ==
    /\ store' = e.store
    /\ sPoison' = e.sPoison
    /\ handles' = e.handles
    /\ hPoison' = e.hPoison
    /\ next_handle' = e.next_handle

Init ==
    /\ store = <<>>
    /\ sPoison = FALSE
    /\ handles = <<>>
    /\ hPoison = FALSE
    /\ next_handle = 1
    /\ files = {}
    /\ closeCalls = [i \in Ids |-> 0]
    /\ issued = [i \in Ids |-> 0]
    /\ last = Rec("init", 0)
    /\ scen = IdleScen
    /\ tpc = [t \in Threads |-> "idle"]
    /\ tloc = [t \in Threads |-> IdleLoc]
    /\ sLock = ""
    /\ hLock = ""
    /\ fault = ""
    /\ seen = NoneSeen
    /\ remote = NoRemote
    /\ host = NoHost
    /\ cli = [exists |-> FALSE,   \* the directory RPC_DIR is there
              dir |-> <<>>,       \* request id -> the task in the file <id>.json
              pc |-> [p \in Procs |-> "idle"],
              id |-> [p \in Procs |-> <<>>],
              task |-> [p \in Procs |-> 0],
              spawns |-> 0,       \* spawn commands started so far; the n-th carries task n
              used |-> [i \in SpawnIds |-> 0],   \* id -> spawn commands that got it
              lost |-> {}]        \* tasks whose file another spawn wrote over
    /\ tty = [mode |-> "", pc |-> "none",
              guard |-> FALSE,    \* _guard holds the cleanup closure
              cleanups |-> 0,     \* runs of the cleanup closure
              closed |-> FALSE,   \* stdin_pipe.close() was called
              user |-> <<>>,      \* chunks written by the user, not yet read
              eof |-> FALSE,      \* the user closed their end
              err |-> FALSE,      \* reading u_stdin_rx fails
              buffer |-> <<>>,
              events |-> <<>>,    \* InputEvent::Raw payloads the Tty has handled
              way |-> ""]         \* how the task ended

----------------------------------------------------------------------------
(* The host side of the store: the write_file closure (the tests seed the  *)
(* store the same way, by inserting into it).                              *)

DoWriteFile(p, b) ==
    LET e == write_file(p, b)
    IN  /\ Commit(e)
        /\ last' = [Rec("write_file", 0) EXCEPT !.res = e.res, !.bres = e.res]
        /\ UNCHANGED <<files, closeCalls, issued>>

----------------------------------------------------------------------------
(* impl FileSystem for ProxyFileSystem *)

(* to_vfs_metadata: FsMetadata -> virtual_fs::Metadata *)
to_vfs_metadata(m) ==
    [ft |-> IF m.is_dir THEN "dir" ELSE "file",
     accessed |-> 0, created |-> 0, modified |-> 0, len |-> m.len]

(* a symlink_metadata that reports every path as a symlink of length 0 *)
symlink_metadata_link(path) ==
    LET c == HostCallback("metadata", metadata_cb(path))
    IN  [e |-> c.e, res |-> c.e.res,
         meta |-> [to_vfs_metadata(c.meta) EXCEPT !.len = 0], calls |-> 1]

(* FileSystem::metadata: the closure's FsMetadata, converted; r.e is the  *)
(* backend state the call leaves                                          *)
metadata(path) ==
    LET c == HostCallback("metadata", metadata_cb(path))
    IN  [e |-> c.e, res |-> c.e.res, meta |-> to_vfs_metadata(c.meta), calls |-> 1]

(* FileSystem::symlink_metadata: self.metadata(path) *)
symlink_metadata(path) == metadata(path)

DoMetadata(p) ==
    LET r == metadata(p)
    IN  /\ Commit(r.e)
        /\ last' = [Rec("metadata", 0) EXCEPT
                        !.res = r.res, !.bres = r.e.res, !.calls = r.calls,
                        !.ret = IF r.res = "Ok" THEN r.meta.len ELSE 0, !.bret = r.e.ret,
                        !.out = IF r.res = "Ok" THEN <<r.meta>> ELSE <<>>]
        /\ UNCHANGED <<files, closeCalls, issued>>

DoRemoveFile(p) ==
    LET e == Callback(remove_file_cb(p))
    IN  /\ Commit(e)
        /\ last' = [Rec("remove_file", 0) EXCEPT !.res = e.res, !.bres = e.res, !.calls = 1]
        /\ UNCHANGED <<files, closeCalls, issued>>

DoRename(from, to) ==
    LET e == Callback(rename_cb(from, to))
    IN  /\ Commit(e)
        /\ last' = [Rec("rename", 0) EXCEPT !.res = e.res, !.bres = e.res, !.calls = 1]
        /\ UNCHANGED <<files, closeCalls, issued>>

DoSymlinkMetadata(p) ==
    LET r == symlink_metadata(p)
    IN  /\ Commit(r.e)
        /\ last' = [Rec("symlink_metadata", 0) EXCEPT
                        !.res = r.res, !.bres = r.e.res, !.calls = r.calls,
                        !.ret = IF r.res = "Ok" THEN r.meta.len ELSE 0, !.bret = r.e.ret,
                        !.out = IF r.res = "Ok" THEN <<r.meta>> ELSE <<>>]
        /\ UNCHANGED <<files, closeCalls, issued>>

(* a read_dir that answers a backend error with an empty listing *)
DoReadDir_empty(p) ==
    LET e == HostCallback("read_dir", read_dir_cb(p)).e
    IN  /\ Commit(e)
        /\ last' = [Rec("read_dir", 0) EXCEPT !.bres = e.res, !.calls = 1]
        /\ UNCHANGED <<files, closeCalls, issued>>

(* a read_dir that hands the entries over last to first *)
DoReadDir_reversed(p) ==
    LET e == HostCallback("read_dir", read_dir_cb(p)).e
        n == Len(e.out)
        vfs_entries == [i \in DOMAIN e.out |->
                           [path |-> <<p, e.out[n + 1 - i].name>>,
                            metadata |-> to_vfs_metadata(e.out[n + 1 - i].metadata)]]
    IN  /\ Commit(e)
        /\ last' = [Rec("read_dir", 0) EXCEPT
                        !.res = e.res, !.bres = e.res, !.calls = 1,
                        !.out = IF e.res = "Ok" THEN vfs_entries ELSE <<>>]
        /\ UNCHANGED <<files, closeCalls, issued>>

(* read_dir: the entries of the closure, each with its path joined to the *)
(* directory's and its metadata converted; out is the entry list          *)
DoReadDir(p) ==
    LET e == HostCallback("read_dir", read_dir_cb(p)).e
        vfs_entries == [i \in DOMAIN e.out |->
                           [path |-> <<p, e.out[i].name>>,
                            metadata |-> to_vfs_metadata(e.out[i].metadata)]]
    IN  /\ Commit(e)
        /\ last' = [Rec("read_dir", 0) EXCEPT
                        !.res = e.res, !.bres = e.res, !.calls = 1,
                        !.out = IF e.res = "Ok" THEN vfs_entries ELSE <<>>]
        /\ UNCHANGED <<files, closeCalls, issued>>

DoCreateDir(p) ==
    LET e == Callback(create_dir_cb(p))
    IN  /\ Commit(e)
        /\ last' = [Rec("create_dir", 0) EXCEPT !.res = e.res, !.bres = e.res, !.calls = 1]
        /\ UNCHANGED <<files, closeCalls, issued>>

DoRemoveDir(p) ==
    LET e == Callback(remove_dir_cb(p))
    IN  /\ Commit(e)
        /\ last' = [Rec("remove_dir", 0) EXCEPT !.res = e.res, !.bres = e.res, !.calls = 1]
        /\ UNCHANGED <<files, closeCalls, issued>>

(* a readlink that asks the backend for the path's metadata *)
readlink_stat(path) ==
    LET e == Callback(metadata_cb(path))
    IN  [e |-> e, res |-> IF e.res = "Ok" THEN "Unsupported" ELSE e.res, calls |-> 1]

(* readlink and mount: Err(FsError::Unsupported), whatever the arguments; *)
(* r.e is the backend state they leave                                    *)
readlink(path) == [e |-> Cur, res |-> "Unsupported", calls |-> 0]
mount(name, path, fs) == [e |-> Cur, res |-> "Unsupported", calls |-> 0]

DoReadlink(p) ==
    LET r == readlink(p)
    IN  /\ Commit(r.e)
        /\ last' = [Rec("readlink", 0) EXCEPT !.res = r.res, !.calls = r.calls]
        /\ UNCHANGED <<files, closeCalls, issued>>

DoMount(name, p, fs) ==
    LET r == mount(name, p, fs)
    IN  /\ Commit(r.e)
        /\ last' = [Rec("mount", 0) EXCEPT !.res = r.res, !.calls = r.calls]
        /\ UNCHANGED <<files, closeCalls, issued>>

----------------------------------------------------------------------------
(* impl FileOpener for ProxyFileSystem, and ProxyFile *)

(* FileOpener::open: the six options become OpenFlags, the open closure is *)
(* called, and its id is wrapped in a ProxyFile.                           *)
DoOpen(p, conf) ==
    LET flags == OpenFlags(conf)
        e == Callback(open_cb(p, flags))
    IN  /\ next_handle <= MaxOpens
        /\ Commit(e)
        /\ files' = IF e.res = "Ok" THEN files \cup {e.ret} ELSE files
        /\ issued' = IF e.res = "Ok" THEN [issued EXCEPT ![e.ret] = @ + 1] ELSE issued
        /\ last' = [Rec("open", IF e.res = "Ok" THEN e.ret ELSE 0) EXCEPT
                        !.res = e.res, !.bres = e.res, !.calls = 1,
                        !.ret = e.ret, !.bret = e.ret]
        /\ UNCHANGED closeCalls

(* a drop that lets the ProxyFile go without calling handle_close *)
DoDrop_forget(f) ==
    /\ f \in files
    /\ files' = files \ {f}
    /\ last' = [Rec("drop", f) EXCEPT !.bres = "Ok"]
    /\ UNCHANGED <<store, sPoison, handles, hPoison, next_handle, closeCalls, issued>>

(* a drop that hands the result of handle_close to whoever lets the file go *)
DoDrop_propagate(f) ==
    LET e == Callback(handle_close_cb(f))
    IN  /\ f \in files
        /\ Commit(e)
        /\ files' = files \ {f}
        /\ closeCalls' = [closeCalls EXCEPT ![f] = @ + 1]
        /\ last' = [Rec("drop", f) EXCEPT !.res = e.res, !.bres = e.res, !.calls = 1]
        /\ UNCHANGED issued

(* impl Drop for ProxyFile: the result of handle_close is discarded *)
DoDrop(f) ==
    LET e == Callback(handle_close_cb(f))
    IN  /\ f \in files
        /\ Commit(e)
        /\ files' = files \ {f}
        /\ closeCalls' = [closeCalls EXCEPT ![f] = @ + 1]
        /\ last' = [Rec("drop", f) EXCEPT
                        !.res = IF e.res = "Panic" THEN "Panic" ELSE "Ok", !.bres = e.res,
                        !.calls = 1]
        /\ UNCHANGED issued

(* What a ProxyFile method hands back: the Poll variant, the result inside *)
(* it, and the backend state `e` the closure call left.                    *)
Returned(e, poll, res, msg, out, ret) ==
    [e |-> e, poll |-> poll, res |-> res, msg |-> msg, out |-> out, ret |-> ret,
     calls |-> 1]

(* a method that answers on its own, without calling into FsCallbacks *)
Immediate(poll, res, ret) ==
    [Returned(Cur, poll, res, "", <<>>, ret) EXCEPT !.calls = 0]

(* a panic unwinds through the method: nothing is returned *)
Unwound(e) == Returned(e, "", "Panic", "", <<>>, 0)

(* a poll_read that answers a backend error with Pending *)
poll_read_pending(f, len) ==
    LET e == Callback(handle_read_cb(f, len))
    IN  CASE e.res = "Ok" -> Returned(e, "Ready", "Ok", "", e.out, 0)
          [] e.res = "Panic" -> Unwound(e)
          [] OTHER -> Returned(e, "Pending", "", "", <<>>, 0)

(* a poll_read that asks the backend again when it answered with an error *)
poll_read_retry(f, len) ==
    LET e == Callback(handle_read_cb(f, len))
    IN  CASE e.res = "Ok" -> Returned(e, "Ready", "Ok", "", e.out, 0)
          [] e.res = "Panic" -> Unwound(e)
          [] OTHER ->
               [Returned(e, "Ready", IoOther(e.res).kind, IoOther(e.res).msg, <<>>, 0)
                   EXCEPT !.calls = 2]

(* AsyncRead::poll_read with a ReadBuf of `len` remaining bytes.           *)
(* ReadBuf::put_slice panics when the slice is longer than what remains.  *)
poll_read(f, len) ==
    LET e == HostCallback("handle_read", handle_read_cb(f, len)).e
    IN  CASE e.res = "Ok" /\ Len(e.out) > len -> Unwound(e)
          [] e.res = "Ok" -> Returned(e, "Ready", "Ok", "", e.out, 0)
          [] e.res = "Panic" -> Unwound(e)
          [] OTHER -> Returned(e, "Ready", IoOther(e.res).kind, IoOther(e.res).msg, <<>>, 0)

(* AsyncWrite::poll_write *)
poll_write(f, buf, checks) ==
    LET e == Callback(handle_write_cb(f, buf, checks))
    IN  CASE e.res = "Ok" -> Returned(e, "Ready", "Ok", "", <<>>, e.ret)
          [] e.res = "Panic" -> Unwound(e)
          [] OTHER -> Returned(e, "Ready", IoOther(e.res).kind, IoOther(e.res).msg, <<>>, 0)

(* AsyncWrite::poll_flush / poll_shutdown: Poll::Ready(Ok(())) *)
poll_flush(f) == Immediate("Ready", "Ok", 0)
poll_shutdown(f) == Immediate("Ready", "Ok", 0)

(* VirtualFile::poll_read_ready / poll_write_ready: Poll::Ready(Ok(0)) *)
poll_read_ready(f) == Immediate("Ready", "Ok", 0)
poll_write_ready(f) == Immediate("Ready", "Ok", 0)

(* AsyncSeek::start_seek: not a poll; the position the backend returns is dropped *)
start_seek(f, seek) ==
    LET e == Callback(handle_seek_cb(f, seek))
    IN  CASE e.res = "Ok" -> Returned(e, "", "Ok", "", <<>>, 0)
          [] e.res = "Panic" -> Unwound(e)
          [] OTHER -> Returned(e, "", IoOther(e.res).kind, IoOther(e.res).msg, <<>>, 0)

(* AsyncSeek::poll_complete: Poll::Ready(Ok(0)) *)
poll_complete(f) == Immediate("Ready", "Ok", 0)

(* a set_len that cuts or zero-extends the handle's buffer *)
set_len_resize(f, new_size) ==
    LET e == IF f \in DOMAIN handles
             THEN [Cur EXCEPT !.handles =
                       [handles EXCEPT ![f].data = Resize(@, new_size)]]
             ELSE [Cur EXCEPT !.res = "InvalidFd"]
    IN  Returned(e, "", e.res, "", <<>>, 0)

(* VirtualFile::set_len / unlink: Err(FsError::Unsupported) *)
set_len(f, new_size) == Immediate("", "Unsupported", 0)
unlink(f) == Immediate("", "Unsupported", 0)

Deliver(op, f, r) ==
    [Rec(op, f) EXCEPT !.poll = r.poll, !.res = r.res, !.msg = r.msg, !.out = r.out,
                       !.ret = r.ret, !.bres = r.e.res, !.bret = r.e.ret,
                       !.calls = r.calls]

DoPollRead(f, len) ==
    LET r == poll_read(f, len)
    IN  /\ f \in files
        /\ Commit(r.e)
        /\ last' = Deliver("poll_read", f, r)
        /\ UNCHANGED <<files, closeCalls, issued>>

DoPollWrite(f, buf, checks) ==
    LET r == poll_write(f, buf, checks)
    IN  /\ f \in files
        /\ Commit(r.e)
        /\ last' = Deliver("poll_write", f, r)
        /\ UNCHANGED <<files, closeCalls, issued>>

DoStartSeek(f, seek) ==
    LET r == start_seek(f, seek)
    IN  /\ f \in files
        /\ Commit(r.e)
        /\ last' = Deliver("start_seek", f, r)
        /\ UNCHANGED <<files, closeCalls, issued>>

DoSetLen(f, new_size) ==
    LET r == set_len(f, new_size)
    IN  /\ f \in files
        /\ Commit(r.e)
        /\ last' = Deliver("set_len", f, r)
        /\ UNCHANGED <<files, closeCalls, issued>>

DoUnlink(f) ==
    LET r == unlink(f)
    IN  /\ f \in files
        /\ Commit(r.e)
        /\ last' = Deliver("unlink", f, r)
        /\ UNCHANGED <<files, closeCalls, issued>>

(* poll_complete after a start_seek that returned Ok.  bres/bret keep what *)
(* the backend answered to that start_seek.                                *)
DoPollComplete(f) ==
    LET r == poll_complete(f)
    IN  /\ f \in files
        /\ last.op = "start_seek" /\ last.h = f /\ last.res = "Ok"
        /\ last' = [Deliver("poll_complete", f, r) EXCEPT !.bres = last.bres, !.bret = last.bret]
        /\ UNCHANGED <<store, sPoison, handles, hPoison, next_handle, files, closeCalls, issued>>

----------------------------------------------------------------------------
(* The Backend Port called directly with an id of the caller's choosing,   *)
(* as the host side of the callback boundary can.                          *)

DoHandleRead(id, len) ==
    LET e == handle_read_cb(id, len)
    IN  /\ Commit(e)
        /\ last' = [Rec("handle_read", id) EXCEPT !.res = e.res, !.bres = e.res, !.out = e.out]
        /\ UNCHANGED <<files, closeCalls, issued>>

DoHandleWrite(id, buf, checks) ==
    LET e == handle_write_cb(id, buf, checks)
    IN  /\ Commit(e)
        /\ last' = [Rec("handle_write", id) EXCEPT
                        !.res = e.res, !.bres = e.res, !.ret = e.ret, !.bret = e.ret]
        /\ UNCHANGED <<files, closeCalls, issued>>

DoHandleSeek(id, seek) ==
    LET e == handle_seek_cb(id, seek)
    IN  /\ Commit(e)
        /\ last' = [Rec("handle_seek", id) EXCEPT
                        !.res = e.res, !.bres = e.res, !.ret = e.ret, !.bret = e.ret]
        /\ UNCHANGED <<files, closeCalls, issued>>

DoHandleClose(id) ==
    LET e == handle_close_cb(id)
    IN  /\ Commit(e)
        /\ last' = [Rec("handle_close", id) EXCEPT !.res = e.res, !.bres = e.res]
        /\ UNCHANGED <<files, closeCalls, issued>>

----------------------------------------------------------------------------
(* Inputs of the exploration *)

Lens == 0..MaxLen

Seeks ==
    {SeekFrom("Start", n) : n \in 0..MaxLen}
    \cup {SeekFrom(w, n) : w \in {"Current", "End"}, n \in (0 - MaxLen - MaxBack)..MaxLen}

(* the cursor a seek would leave stays inside the explored window *)
SeekInWindow(f, seek) ==
    f \in DOMAIN handles =>
        LET new_pos == handle_seek_cb(f, seek).ret
        IN  hPoison \/ (new_pos >= 0 - MaxBack /\ new_pos <= MaxLen)

(* the two builds differ only where `start + buf.len()` overflows *)
Builds(f) ==
    IF f \in DOMAIN handles /\ handles[f].pos < 0 THEN BOOLEAN ELSE {TRUE}

(* the buffer a write would leave stays inside the explored window *)
WriteInWindow(f, buf) ==
    f \in DOMAIN handles => handles[f].pos + Len(buf) <= MaxLen

----------------------------------------------------------------------------
(* Single calls, in any order *)

WriteFile ==
    /\ Free /\ files = {}
    /\ \E p \in FilePaths, b \in Contents : DoWriteFile(p, b)
    /\ UNCHANGED <<scen, conc, env>>

FsMetadata ==
    /\ Free
    /\ \E p \in FilePaths : DoMetadata(p)
    /\ UNCHANGED <<scen, conc, env>>

RemoveFile ==
    /\ Free
    /\ \E p \in Paths : DoRemoveFile(p)
    /\ UNCHANGED <<scen, conc, env>>

Rename ==
    /\ Free
    /\ \E from \in Paths, to \in Paths : DoRename(from, to)
    /\ UNCHANGED <<scen, conc, env>>

Open ==
    /\ Free
    /\ \E p \in FilePaths, conf \in {ReadOnly, WriteCreate} : DoOpen(p, conf)
    /\ UNCHANGED <<scen, conc, env>>

Drop ==
    /\ Free
    /\ \E f \in files : DoDrop(f)
    /\ UNCHANGED <<scen, conc, env>>

PollRead ==
    /\ Free
    /\ \E f \in files, len \in Lens : DoPollRead(f, len)
    /\ UNCHANGED <<scen, conc, env>>

PollWrite ==
    /\ Free
    /\ \E f \in files, buf \in Contents :
          \E checks \in Builds(f) : WriteInWindow(f, buf) /\ DoPollWrite(f, buf, checks)
    /\ UNCHANGED <<scen, conc, env>>

StartSeek ==
    /\ Free
    /\ \E f \in files, seek \in Seeks : SeekInWindow(f, seek) /\ DoStartSeek(f, seek)
    /\ UNCHANGED <<scen, conc, env>>

(* direct calls: read, write and seek on ids that are not in the table, close on any id *)
PortRead ==
    /\ Free
    /\ \E id \in Ids \ DOMAIN handles, len \in {0, MaxLen} : DoHandleRead(id, len)
    /\ UNCHANGED <<scen, conc, env>>

PortWrite ==
    /\ Free
    /\ \E id \in Ids \ DOMAIN handles, buf \in {<<>>, <<1>>} : DoHandleWrite(id, buf, TRUE)
    /\ UNCHANGED <<scen, conc, env>>

PortSeek ==
    /\ Free
    /\ \E id \in Ids \ DOMAIN handles, w \in {"Start", "Current", "End"} :
          DoHandleSeek(id, SeekFrom(w, 0))
    /\ UNCHANGED <<scen, conc, env>>

PortClose ==
    /\ Free
    /\ \E id \in Ids : DoHandleClose(id)
    /\ UNCHANGED <<scen, conc, env>>

----------------------------------------------------------------------------
(* Scripted sequences of calls, started from any state.  They follow the   *)
(* bodies of test_proxy_file_open_and_read and test_proxy_file_write: seed *)
(* or write, open, read, look at the store.  A script that cannot go on    *)
(* (a call panicked) ends.                                                 *)

Script(name, step) == scen.name = name /\ scen.step = step

(* write_file(p, b); open(p, {read}); read(n), n >= len(b) *)
RoundTripWrite ==
    /\ UNCHANGED <<conc, env>>
    /\ Free /\ ~sPoison
    /\ \E p \in FilePaths, b \in Contents :
          /\ DoWriteFile(p, b)
          /\ scen' = [IdleScen EXCEPT !.name = "roundtrip", !.step = 1, !.p = p, !.b = b]

RoundTripOpen ==
    /\ UNCHANGED <<conc, env>>
    /\ Script("roundtrip", 1)
    /\ DoOpen(scen.p, ReadOnly)
    /\ scen' = IF last'.res = "Ok" THEN [scen EXCEPT !.step = 2, !.h = last'.ret]
               ELSE [scen EXCEPT !.step = 0]

RoundTripRead ==
    /\ UNCHANGED <<conc, env>>
    /\ Script("roundtrip", 2)
    /\ \E n \in Len(scen.b)..MaxLen : DoPollRead(scen.h, n)
    /\ scen' = [scen EXCEPT !.step = 3]

(* write(b) through an open handle h; open the same path again; read *)
WriteThroughWrite ==
    /\ UNCHANGED <<conc, env>>
    /\ Free
    /\ \E f \in files \cap DOMAIN handles, buf \in Contents : \E checks \in Builds(f) :
          /\ WriteInWindow(f, buf)
          /\ DoPollWrite(f, buf, checks)
          /\ scen' = IF last'.res = "Ok"
                     THEN [IdleScen EXCEPT !.name = "writethrough", !.step = 1,
                                           !.p = handles[f].path, !.b = buf,
                                           !.h = f, !.k = handles[f].pos]
                     ELSE [IdleScen EXCEPT !.name = "writethrough"]

WriteThroughOpen ==
    /\ UNCHANGED <<conc, env>>
    /\ Script("writethrough", 1)
    /\ \E conf \in {ReadOnly, WriteCreate} : DoOpen(scen.p, conf)
    /\ scen' = IF last'.res = "Ok" THEN [scen EXCEPT !.step = 2, !.h2 = last'.ret]
               ELSE [scen EXCEPT !.step = 0]

WriteThroughRead ==
    /\ UNCHANGED <<conc, env>>
    /\ Script("writethrough", 2)
    /\ \E n \in (scen.k + Len(scen.b))..MaxLen : DoPollRead(scen.h2, n)
    /\ scen' = [scen EXCEPT !.step = 3]

(* open(p, {write, create}); write(b); close; open(p, {read}); read(n); metadata(p) *)
EndToEndOpen ==
    /\ UNCHANGED <<conc, env>>
    /\ Free
    /\ \E p \in FilePaths :
          /\ DoOpen(p, WriteCreate)
          /\ scen' = IF last'.res = "Ok"
                     THEN [IdleScen EXCEPT !.name = "e2e", !.step = 1, !.p = p,
                                           !.h = last'.ret,
                                           !.k = IF p \in DOMAIN store
                                                 THEN Len(store[p]) ELSE 0]
                     ELSE [IdleScen EXCEPT !.name = "e2e"]

EndToEndWrite ==
    /\ UNCHANGED <<conc, env>>
    /\ Script("e2e", 1)
    /\ \E buf \in Contents, checks \in Builds(scen.h) :
          /\ DoPollWrite(scen.h, buf, checks)
          /\ scen' = IF last'.res = "Ok" THEN [scen EXCEPT !.step = 2, !.b = buf]
                     ELSE [scen EXCEPT !.step = 0]

EndToEndClose ==
    /\ UNCHANGED <<conc, env>>
    /\ Script("e2e", 2)
    /\ DoDrop(scen.h)
    /\ scen' = [scen EXCEPT !.step = 3]

EndToEndReopen ==
    /\ UNCHANGED <<conc, env>>
    /\ Script("e2e", 3)
    /\ DoOpen(scen.p, ReadOnly)
    /\ scen' = IF last'.res = "Ok" THEN [scen EXCEPT !.step = 4, !.h2 = last'.ret]
               ELSE [scen EXCEPT !.step = 0]

EndToEndRead ==
    /\ UNCHANGED <<conc, env>>
    /\ Script("e2e", 4)
    /\ DoPollRead(scen.h2, Len(scen.b))
    /\ scen' = [scen EXCEPT !.step = 5]

EndToEndMetadata ==
    /\ UNCHANGED <<conc, env>>
    /\ Script("e2e", 5)
    /\ DoMetadata(scen.p)
    /\ scen' = [scen EXCEPT !.step = 6]

Next ==
    \/ WriteFile \/ FsMetadata
    \/ Open \/ Drop \/ PollRead \/ PollWrite \/ StartSeek
    \/ RoundTripWrite \/ RoundTripOpen \/ RoundTripRead
    \/ WriteThroughWrite \/ WriteThroughOpen \/ WriteThroughRead
    \/ EndToEndOpen \/ EndToEndWrite \/ EndToEndClose
    \/ EndToEndReopen \/ EndToEndRead \/ EndToEndMetadata

Spec == Init /\ [][Next]_vars

(* the facade together with direct calls on the Backend Port *)
NextPort ==
    \/ WriteFile
    \/ Open \/ Drop \/ PollRead \/ PollWrite \/ StartSeek
    \/ PortRead \/ PortWrite \/ PortSeek \/ PortClose

SpecPort == Init /\ [][NextPort]_vars

----------------------------------------------------------------------------
(* Seeks on one handle over a buffer of up to SeekMaxLen bytes: the store   *)
(* is seeded, the path opened, and the handle seeked through its ProxyFile  *)
(* (start_seek, then poll_complete).  scen keeps the cursor, the buffer and *)
(* the SeekFrom of the seek in progress.                                    *)

SeekInputs ==
    {SeekFrom("Start", n) : n \in 0..SeekMaxLen}
    \cup {SeekFrom(w, n) : w \in {"Current", "End"}, n \in (0 - SeekMaxLen)..SeekMaxLen}

SeekSeed ==
    /\ Free /\ DOMAIN store = {} /\ files = {} /\ next_handle = 1
    /\ \E p \in FilePaths, L \in 0..SeekMaxLen : DoWriteFile(p, Pattern(L))
    /\ UNCHANGED <<scen, conc, env>>

SeekOpen ==
    /\ Free /\ DOMAIN store # {} /\ files = {} /\ next_handle = 1
    /\ \E p \in DOMAIN store : DoOpen(p, ReadOnly)
    /\ UNCHANGED <<scen, conc, env>>

SeekCall ==
    /\ UNCHANGED <<conc, env>>
    /\ scen.name \in {"none", "seek"}
    /\ \E f \in files \cap DOMAIN handles, seek \in SeekInputs :
          /\ handle_seek_cb(f, seek).ret \in (0 - SeekBack)..SeekMaxLen
          /\ DoStartSeek(f, seek)
          /\ scen' = [IdleScen EXCEPT !.name = "seek", !.step = 1, !.h = f,
                                      !.p = handles[f].path, !.k = handles[f].pos,
                                      !.b = handles[f].data, !.seek = seek]

SeekComplete ==
    /\ UNCHANGED <<conc, env>>
    /\ Script("seek", 1)
    /\ DoPollComplete(scen.h)
    /\ scen' = [scen EXCEPT !.step = 2]

NextSeek == SeekSeed \/ SeekOpen \/ SeekCall \/ SeekComplete

SpecSeek == Init /\ [][NextSeek]_vars

----------------------------------------------------------------------------
(* Opens, writes and closes from several threads.  open_cb runs in the steps *)
(* its code takes: lock the store and copy the content, fetch_add on the    *)
(* allocator, lock the handle table and insert.  The store guard lives to   *)
(* the end of the closure.  No closure panics here: no Mutex is poisoned.   *)

(* FileOpener::open is entered; the thread is about to lock the store.  ovl *)
(* records that another thread was inside open at that moment.              *)
ConcOpenCall(t) ==
    /\ tpc[t] = "idle"
    /\ next_handle + Cardinality({u \in Threads : tpc[u] \in {"open_lock", "open_fetch"}})
          <= MaxOpens
    /\ \E p \in Paths :
          tloc' = [tloc EXCEPT ![t] = [IdleLoc EXCEPT !.path = p,
                                          !.ovl = \E u \in Threads \ {t} : tpc[u] # "idle"]]
    /\ tpc' = [tpc EXCEPT ![t] = "open_lock"]
    /\ UNCHANGED <<store, sPoison, handles, hPoison, next_handle, files, closeCalls,
                   issued, last, scen, sLock, hLock, env>>

(* let store = s5.lock().unwrap(); let data = store.get(path).cloned().unwrap_or_default() *)
ConcOpenLock(t) ==
    /\ tpc[t] = "open_lock" /\ sLock = ""
    /\ sLock' = t
    /\ tloc' = [tloc EXCEPT ![t].data =
                   IF tloc[t].path \in DOMAIN store THEN store[tloc[t].path] ELSE <<>>]
    /\ tpc' = [tpc EXCEPT ![t] = "open_fetch"]
    /\ UNCHANGED <<store, sPoison, handles, hPoison, next_handle, files, closeCalls,
                   issued, last, scen, hLock, env>>

(* let id = nh.fetch_add(1, Relaxed) *)
ConcOpenFetch(t) ==
    /\ tpc[t] = "open_fetch"
    /\ tloc' = [tloc EXCEPT ![t].id = fetch_add(next_handle).old]
    /\ next_handle' = fetch_add(next_handle).new
    /\ tpc' = [tpc EXCEPT ![t] = "open_insert"]
    /\ UNCHANGED <<store, sPoison, handles, hPoison, files, closeCalls,
                   issued, last, scen, sLock, hLock, env>>

(* h.lock().unwrap().insert(id, (path, data, 0)); Ok(id); both guards are *)
(* released and FileOpener::open wraps the id in a ProxyFile              *)
ConcOpenInsert(t) ==
    LET id == tloc[t].id
    IN  /\ tpc[t] = "open_insert" /\ hLock = ""
        /\ handles' = MapInsert(handles, id,
                          [path |-> tloc[t].path, data |-> tloc[t].data, pos |-> 0])
        /\ sLock' = ""
        /\ files' = files \cup {id}
        /\ issued' = [issued EXCEPT ![id] = @ + 1]
        /\ last' = [Rec("open", id) EXCEPT !.ret = id, !.bres = "Ok", !.bret = id]
        /\ tpc' = [tpc EXCEPT ![t] = "idle"]
        /\ UNCHANGED <<store, sPoison, hPoison, next_handle, closeCalls, scen, tloc, hLock,
                       env>>

(* a thread drops a ProxyFile: handle_close locks the handle table only *)
ConcDrop(t) ==
    /\ tpc[t] = "idle" /\ hLock = ""
    /\ \E f \in files : DoDrop(f)
    /\ UNCHANGED <<scen, conc, env>>

(* the host writes a file: write_file locks the store only *)
ConcWriteFile(t) ==
    /\ tpc[t] = "idle" /\ sLock = "" /\ DOMAIN store = {}
    /\ \E p \in FilePaths, b \in {<<>>, <<1>>} : DoWriteFile(p, b)
    /\ UNCHANGED <<scen, conc, env>>

(* handle_write_cb runs in the steps its code takes: lock the handle table  *)
(* and change the entry, then, the handles guard still alive, lock the     *)
(* store and insert the buffer.                                            *)

(* ProxyFile::poll_write is entered with a buffer; the thread is about to  *)
(* lock the handle table                                                   *)
ConcWriteCall(t) ==
    /\ tpc[t] = "idle"
    /\ \E f \in files, buf \in {<<>>, <<1>>} :
          /\ WriteInWindow(f, buf)
          /\ tloc' = [tloc EXCEPT ![t] = [IdleLoc EXCEPT !.id = f, !.data = buf]]
    /\ tpc' = [tpc EXCEPT ![t] = "write_lock"]
    /\ UNCHANGED <<store, sPoison, handles, hPoison, next_handle, files, closeCalls,
                   issued, last, scen, sLock, hLock, env>>

(* let mut h = h3.lock().unwrap(); get_mut(&handle).ok_or(InvalidFd)?;     *)
(* resize, copy_from_slice, *pos += buf.len()                              *)
ConcWriteLock(t) ==
    LET f == tloc[t].id
        buf == tloc[t].data
    IN  /\ tpc[t] = "write_lock" /\ hLock = ""
        /\ IF f \in DOMAIN handles
           THEN LET e == handles[f]
                    start == e.pos
                    grown == IF start + Len(buf) > Len(e.data)
                             THEN Resize(e.data, start + Len(buf)) ELSE e.data
                IN  /\ handles' = [handles EXCEPT
                                      ![f].data = CopyFromSlice(grown, start, buf),
                                      ![f].pos = start + Len(buf)]
                    /\ hLock' = t
                    /\ tpc' = [tpc EXCEPT ![t] = "write_store"]
                    /\ UNCHANGED last
           ELSE /\ last' = [Rec("poll_write", f) EXCEPT !.res = "Other", !.poll = "Ready",
                               !.msg = IoOther("InvalidFd").msg, !.bres = "InvalidFd",
                               !.calls = 1]
                /\ tpc' = [tpc EXCEPT ![t] = "idle"]
                /\ UNCHANGED <<handles, hLock>>
        /\ UNCHANGED <<store, sPoison, hPoison, next_handle, files, closeCalls, issued,
                       scen, tloc, sLock, env>>

(* let mut store = s6.lock().unwrap(); store.insert(path.clone(),          *)
(* data.clone()); Ok(buf.len()); both guards are released                  *)
ConcWriteStore(t) ==
    LET f == tloc[t].id
        n == Len(tloc[t].data)
    IN  /\ tpc[t] = "write_store" /\ sLock = ""
        /\ store' = MapInsert(store, handles[f].path, handles[f].data)
        /\ hLock' = ""
        /\ last' = [Rec("poll_write", f) EXCEPT !.poll = "Ready", !.ret = n,
                                                !.bres = "Ok", !.bret = n, !.calls = 1]
        /\ tpc' = [tpc EXCEPT ![t] = "idle"]
        /\ UNCHANGED <<sPoison, handles, hPoison, next_handle, files, closeCalls, issued,
                       scen, tloc, sLock, env>>

NextConc ==
    \E t \in Threads :
        \/ ConcOpenCall(t) \/ ConcOpenLock(t) \/ ConcOpenFetch(t) \/ ConcOpenInsert(t)
        \/ ConcDrop(t) \/ ConcWriteFile(t)
        \/ ConcWriteCall(t) \/ ConcWriteLock(t) \/ ConcWriteStore(t)

SpecConc == Init /\ [][NextConc]_vars

----------------------------------------------------------------------------
(* The whole-file operations of the facade over two paths, with a backend *)
(* that may answer with an error of its own (fault), and the sequences of *)
(* test_proxy_fs_remove_file and test_proxy_fs_rename: the operation,     *)
(* then metadata on the paths involved.                                   *)

Faults == {"PermissionDenied", "EntryNotFound"}
FsContents == {<<>>, <<1>>, <<1, 0>>}

SetFault ==
    /\ Free
    /\ \E err \in Faults \cup {""} : fault' = err
    /\ last' = Rec("set_fault", 0)
    /\ UNCHANGED <<store, sPoison, handles, hPoison, next_handle, files, closeCalls, issued,
                   scen, conc, ext, seen, remote, host>>

FsSeed ==
    /\ Free /\ files = {}
    /\ \E p \in Paths, b \in FsContents : DoWriteFile(p, b)
    /\ UNCHANGED <<scen, conc, env>>

FsStat ==
    /\ Free
    /\ \E p \in Paths : DoMetadata(p) \/ DoSymlinkMetadata(p)
    /\ UNCHANGED <<scen, conc, env>>

FsDirs ==
    /\ Free
    /\ \E p \in Paths : DoReadDir(p) \/ DoCreateDir(p) \/ DoRemoveDir(p)
    /\ UNCHANGED <<scen, conc, env>>

FsUnsupported ==
    /\ Free
    /\ \E p \in Paths : DoReadlink(p) \/ DoMount("m", p, "fs")
    /\ UNCHANGED <<scen, conc, env>>

(* remove_file(p) on an existing p; metadata(p); metadata of the other paths *)
RemoveCall ==
    /\ UNCHANGED <<conc, env>>
    /\ Free /\ fault = ""
    /\ \E p \in DOMAIN store :
          /\ DoRemoveFile(p)
          /\ scen' = [IdleScen EXCEPT !.name = "remove", !.step = 1, !.p = p, !.st = store]

RemoveThenMetadata ==
    /\ UNCHANGED <<conc, env>>
    /\ Script("remove", 1)
    /\ DoMetadata(scen.p)
    /\ scen' = [scen EXCEPT !.step = 2]

RemoveThenOther ==
    /\ UNCHANGED <<conc, env>>
    /\ Script("remove", 2)
    /\ \E q \in Paths \ {scen.p} :
          /\ DoMetadata(q)
          /\ scen' = [scen EXCEPT !.step = 3, !.q = q]

(* rename(a, b) on an existing a; metadata(a); metadata(b) *)
RenameCall ==
    /\ UNCHANGED <<conc, env>>
    /\ Free /\ fault = ""
    /\ \E a \in DOMAIN store, b \in Paths :
          /\ DoRename(a, b)
          /\ scen' = [IdleScen EXCEPT !.name = "rename", !.step = 1, !.p = a, !.q = b,
                                      !.b = store[a], !.st = store]

RenameThenFrom ==
    /\ UNCHANGED <<conc, env>>
    /\ Script("rename", 1)
    /\ DoMetadata(scen.p)
    /\ scen' = [scen EXCEPT !.step = 2]

RenameThenTo ==
    /\ UNCHANGED <<conc, env>>
    /\ Script("rename", 2)
    /\ DoMetadata(scen.q)
    /\ scen' = [scen EXCEPT !.step = 3]

NextFs ==
    \/ SetFault \/ FsSeed \/ FsStat \/ FsDirs \/ FsUnsupported
    \/ RemoveFile \/ Rename \/ Open \/ Drop
    \/ RemoveCall \/ RemoveThenMetadata \/ RemoveThenOther
    \/ RenameCall \/ RenameThenFrom \/ RenameThenTo

SpecFs == Init /\ [][NextFs]_vars

----------------------------------------------------------------------------
(* The methods of ProxyFile over a backend that may answer with an error  *)
(* of its own (fault), or whose handle was closed on the host side while  *)
(* the ProxyFile is alive.                                                *)

SetLen ==
    /\ Free
    /\ \E f \in files, new_size \in Lens : DoSetLen(f, new_size)
    /\ UNCHANGED <<scen, conc, env>>

Unlink ==
    /\ Free
    /\ \E f \in files : DoUnlink(f)
    /\ UNCHANGED <<scen, conc, env>>

(* the host closes an id that a live ProxyFile holds *)
HostClose ==
    /\ Free
    /\ \E id \in files \cap DOMAIN handles : DoHandleClose(id)
    /\ UNCHANGED <<scen, conc, env>>

NextFile ==
    \/ SetFault \/ WriteFile
    \/ Open \/ Drop \/ PollRead \/ PollWrite \/ StartSeek
    \/ SetLen \/ Unlink \/ HostClose

SpecFile == Init /\ [][NextFile]_vars

----------------------------------------------------------------------------
(* wasm_impl::ProxyFileSystem (the variant whose backend is a JS object of *)
(* callbacks) and lib.rs create_runtime                                    *)

(* a get_callback that takes whatever the slot holds *)
get_callback_any(obj, i) == [ok |-> TRUE, err |-> ""]

(* get_callback: Reflect::get fails on a value that is not an object and   *)
(* on a getter that throws; a property that is absent reads as undefined,  *)
(* which dyn_into::<Function> rejects like any other non-function.         *)
get_callback(obj, i) ==
    IF obj.kind # "object" \/ obj.slots[i] = "throws"
    THEN [ok |-> FALSE, err |-> "missing callback: " \o Slots[i]]
    ELSE IF obj.slots[i] # "function"
    THEN [ok |-> FALSE, err |-> "callback '" \o Slots[i] \o "' is not a function"]
    ELSE [ok |-> TRUE, err |-> ""]

(* ProxyFileSystem::new: the 13 get_callback(..)? in order; the first that *)
(* fails ends the construction.  No callback is called.                    *)
new(callbacks) ==
    LET bad == {i \in DOMAIN Slots : ~get_callback(callbacks, i).ok}
    IN  IF bad = {}
        THEN [state |-> "built", err |-> "", slot |-> "", calls |-> 0]
        ELSE LET i == CHOOSE k \in bad : \A j \in bad : k <= j
             IN  [state |-> "failed", err |-> get_callback(callbacks, i).err,
                  slot |-> Slots[i], calls |-> 0]

(* create_runtime: NEXT_ID.fetch_add(1), then on wasm32 no filesystem for  *)
(* undefined or null and ProxyFileSystem::new(fs_callbacks)? otherwise; on *)
(* other targets fs_callbacks is not looked at.                            *)
create_runtime(fs_callbacks, target) ==
    IF target = "wasm32"
    THEN IF fs_callbacks.kind \in {"undefined", "null"}
         THEN [state |-> "nofs", err |-> "", slot |-> "", calls |-> 0]
         ELSE new(fs_callbacks)
    ELSE [state |-> "nofs", err |-> "", slot |-> "", calls |-> 0]

DoNew(obj) ==
    LET r == new(obj)
    IN  /\ remote' = [remote EXCEPT !.state = r.state, !.via = "new", !.obj = obj,
                                    !.err = r.err, !.slot = r.slot, !.calls = r.calls,
                                    !.target = "wasm32"]
        /\ last' = [Rec("new", 0) EXCEPT
                        !.res = IF r.state = "failed" THEN "JsError" ELSE "Ok",
                        !.msg = r.err, !.calls = r.calls]

DoCreateRuntime(obj, target) ==
    LET r == create_runtime(obj, target)
        id == remote.next_id
    IN  /\ remote' = [remote EXCEPT !.state = r.state, !.via = "create_runtime",
                                    !.obj = obj, !.err = r.err, !.slot = r.slot,
                                    !.calls = r.calls, !.target = target,
                                    !.next_id = id + 1]
        /\ last' = [Rec("create_runtime", 0) EXCEPT
                        !.res = IF r.state = "failed" THEN "JsError" ELSE "Ok",
                        !.msg = r.err, !.calls = r.calls,
                        !.ret = IF r.state = "failed" THEN 0 ELSE id]

(* ProxyFileSystem::open of the wasm32 variant: a flags object is built,   *)
(* fs_open is called with it, and the answer must be a number.  js is what *)
(* the JS function does: returns a number, returns something else, throws. *)
DoRemoteOpen(path, conf, js) ==
    LET flags == JsFlags(conf.read, conf.write, conf.create, conf.truncate, conf.append)
    IN  /\ remote' = [remote EXCEPT !.calls = @ + 1]
        /\ seen' = [variant |-> "remote", path |-> path, conf |-> conf, flags |-> flags]
        /\ last' = [Rec("remote_open", 0) EXCEPT
                        !.calls = 1,
                        !.bres = js,
                        !.res = IF js = "number" THEN "Ok" ELSE "JsError",
                        !.msg = CASE js = "number" -> ""
                                  [] js = "throws" -> "fs_open failed"
                                  [] OTHER -> "fs_open did not return a number",
                        !.ret = IF js = "number" THEN 1 ELSE 0]

(* The filesystem-level methods of the wasm32 variant.  js is what the JS  *)
(* callback does, by the protocol ProxyFileSystem::new documents:         *)
(* fs_read_file, fs_metadata and fs_read_dir return the data or null (not *)
(* found), the others return true or false; any of them may throw.        *)
(* read_file, metadata and read_dir hand the JsValue back as it is; the   *)
(* others hand back result.as_bool().unwrap_or(false).  A throw is the    *)
(* only Err.                                                              *)
JsAnswers(slot) ==
    IF slot \in {"fs_read_file", "fs_metadata", "fs_read_dir"}
    THEN {"data", "null", "throws"}
    ELSE {"true", "false", "throws"}

DoRemoteCall(slot, js) ==
    LET value == IF slot \in {"fs_read_file", "fs_metadata", "fs_read_dir"} THEN js
                 ELSE IF js = "true" THEN "true" ELSE "false"
    IN  /\ remote' = [remote EXCEPT !.calls = @ + 1]
        /\ last' = [Rec(slot, 0) EXCEPT
                        !.calls = 1,
                        !.bres = js,
                        !.res = IF js = "throws" THEN "JsError" ELSE "Ok",
                        !.msg = IF js = "throws" THEN slot \o " failed" ELSE "",
                        !.out = IF js = "throws" THEN <<>> ELSE <<value>>]

Targets == {"wasm32", "native"}

RemoteNew ==
    /\ Free
    /\ \E obj \in CallbackObjects : DoNew(obj)
    /\ UNCHANGED <<store, sPoison, handles, hPoison, next_handle, files, closeCalls, issued,
                   scen, conc, ext, fault, seen, host>>

CreateRuntime ==
    /\ Free /\ remote.next_id <= MaxRuntimes
    /\ \E obj \in CallbackObjects, target \in Targets : DoCreateRuntime(obj, target)
    /\ UNCHANGED <<store, sPoison, handles, hPoison, next_handle, files, closeCalls, issued,
                   scen, conc, ext, fault, seen, host>>

(* open on a ProxyFileSystem the caller holds (one built by new; the one   *)
(* inside a RuntimeHandle is private)                                      *)
RemoteOpen ==
    /\ Free /\ remote.state = "built" /\ remote.via = "new" /\ remote.calls < MaxCalls
    /\ \E p \in FilePaths, conf \in Confs, js \in {"number", "value", "throws"} :
          DoRemoteOpen(p, conf, js)
    /\ UNCHANGED <<store, sPoison, handles, hPoison, next_handle, files, closeCalls, issued,
                   scen, conc, ext, fault, host>>

RemoteCall ==
    /\ Free /\ remote.state = "built" /\ remote.via = "new" /\ remote.calls < MaxCalls
    /\ \E i \in 1..8 : \E js \in JsAnswers(Slots[i]) : DoRemoteCall(Slots[i], js)
    /\ UNCHANGED <<store, sPoison, handles, hPoison, next_handle, files, closeCalls, issued,
                   scen, conc, ext, fault, seen, host>>

(* open through the facade of the native variant, the flags it hands to    *)
(* the open closure kept in seen                                           *)
LocalOpen ==
    /\ Free
    /\ \E p \in FilePaths, conf \in Confs :
          /\ DoOpen(p, conf)
          /\ seen' = [variant |-> "local", path |-> p, conf |-> conf,
                      flags |-> OpenFlags(conf)]
    /\ UNCHANGED <<scen, conc, ext, fault, remote, host>>

NextRemote ==
    \/ RemoteNew \/ CreateRuntime \/ RemoteOpen \/ RemoteCall \/ LocalOpen

SpecRemote == Init /\ [][NextRemote]_vars

----------------------------------------------------------------------------
(* metadata, symlink_metadata and read_dir over closures of the host that *)
(* return any FsMetadata and any list of entries.                         *)

Hosts ==
    {NoHost}
    \cup {[NoHost EXCEPT !.slot = "metadata", !.meta = m] : m \in FsMetadatas}
    \cup {[NoHost EXCEPT !.slot = "read_dir", !.entries = l] : l \in Listings}

SetHost ==
    /\ Free
    /\ \E h \in Hosts : host' = h
    /\ last' = Rec("set_host", 0)
    /\ UNCHANGED <<store, sPoison, handles, hPoison, next_handle, files, closeCalls, issued,
                   scen, conc, ext, fault, seen, remote>>

NextHost ==
    \/ SetHost \/ SetFault \/ FsSeed \/ FsStat \/ FsDirs

SpecHost == Init /\ [][NextHost]_vars

----------------------------------------------------------------------------
(* Opens through the facade with every combination of options in Confs,   *)
(* on a path that is or is not in the store, followed by metadata, writes *)
(* through the handle and drops.                                          *)

NextOpen ==
    \/ WriteFile \/ LocalOpen \/ FsMetadata \/ PollWrite \/ Drop

SpecOpen == Init /\ [][NextOpen]_vars

----------------------------------------------------------------------------
(* Reads through a ProxyFile whose handle_read closure is the host's and   *)
(* returns bytes of any length, as a closure handed to FsCallbacks or a JS *)
(* callback can.                                                           *)

SetReadHost ==
    /\ Free
    /\ \E h \in {NoHost} \cup {[NoHost EXCEPT !.slot = "handle_read", !.data = d] :
                                    d \in Contents} : host' = h
    /\ last' = Rec("set_host", 0)
    /\ UNCHANGED <<store, sPoison, handles, hPoison, next_handle, files, closeCalls, issued,
                   scen, conc, ext, fault, seen, remote>>

NextRead ==
    WriteFile \/ Open \/ SetReadHost \/ PollRead \/ Drop

SpecRead == Init /\ [][NextRead]_vars

----------------------------------------------------------------------------
(* Files that are open while their path is removed or renamed in the store *)

NextDetach ==
    WriteFile \/ Open \/ StartSeek \/ PollWrite \/ RemoveFile \/ Rename \/ Drop

SpecDetach == Init /\ [][NextDetach]_vars

----------------------------------------------------------------------------
(* The subagent CLI (libs/deepbash/rust/subagent-cli/src/main.rs): each    *)
(* `subagent spawn <task>` is a process that forms an id, then writes the  *)
(* request file RPC_DIR/<id>.json.  The host reads request files and       *)
(* removes them.                                                           *)

(* generate_id: format!("spawn-{}", count), count the number of entries    *)
(* read_dir(RPC_DIR) lists, 0 when the directory cannot be read            *)
generate_id ==
    <<"spawn", IF cli.exists THEN Cardinality(DOMAIN cli.dir) ELSE 0>>

(* cmd_spawn, up to the request built: let id = generate_id() *)
CmdSpawnId(p) ==
    /\ cli.pc[p] = "idle" /\ cli.spawns < MaxSpawns
    /\ cli' = [cli EXCEPT !.pc[p] = "write", !.id[p] = generate_id,
                          !.task[p] = cli.spawns + 1, !.spawns = @ + 1,
                          !.used[generate_id] = @ + 1]
    /\ UNCHANGED <<store, sPoison, handles, hPoison, next_handle, files, closeCalls, issued,
                   last, scen, conc, fault, seen, remote, host, tty>>

(* cmd_spawn, the rest: create_dir_all(RPC_DIR); fs::write(path, json),    *)
(* which creates the file or replaces its content; println; Ok(())         *)
CmdSpawnWrite(p) ==
    LET id == cli.id[p]
    IN  /\ cli.pc[p] = "write"
        /\ cli' = [cli EXCEPT !.pc[p] = "idle", !.exists = TRUE,
                              !.dir = MapInsert(cli.dir, id, cli.task[p]),
                              !.lost = IF id \in DOMAIN cli.dir
                                       THEN @ \cup {cli.dir[id]} ELSE @]
        /\ UNCHANGED <<store, sPoison, handles, hPoison, next_handle, files, closeCalls,
                       issued, last, scen, conc, fault, seen, remote, host, tty>>

(* the host has read a request file and removes it *)
HostTake ==
    /\ \E id \in DOMAIN cli.dir : cli' = [cli EXCEPT !.dir = MapRemove(cli.dir, id)]
    /\ UNCHANGED <<store, sPoison, handles, hPoison, next_handle, files, closeCalls, issued,
                   last, scen, conc, fault, seen, remote, host, tty>>

NextCli ==
    \/ \E p \in Procs : CmdSpawnId(p) \/ CmdSpawnWrite(p)
    \/ HostTake

SpecCli == Init /\ [][NextCli]_vars

----------------------------------------------------------------------------
(* The interactive terminal (libs/deepwasm/rust/runtime/src/wasmer.rs):    *)
(* setup_tty hands the future of copy_stdin_to_tty to spawn_local, whose   *)
(* queue owns it until it has polled it; from then on the task is at one   *)
(* of its two await points until it ends, or is dropped there.             *)

(* a drop that lets the guard go without calling the closure *)
drop_guard_leak(t) == [t EXCEPT !.guard = FALSE]

(* Drop for CleanupGuard: self.0.take().unwrap()(), and the closure is     *)
(* setup_tty's: stdin_pipe.close()                                         *)
drop_guard(t) ==
    [t EXCEPT !.guard = FALSE, !.cleanups = @ + 1, !.closed = TRUE]

(* setup_tty: with a stdin given in the options the terminal is not        *)
(* interactive and nothing is spawned; otherwise the copy task is spawned  *)
SetupTty ==
    /\ tty.mode = ""
    /\ \E stdin \in BOOLEAN :
          tty' = IF stdin THEN [tty EXCEPT !.mode = "NonInteractive"]
                 ELSE [tty EXCEPT !.mode = "Interactive", !.pc = "created"]
    /\ UNCHANGED <<store, sPoison, handles, hPoison, next_handle, files, closeCalls, issued,
                   last, scen, conc, fault, seen, remote, host, cli>>

(* the user's end of stdin_stream: a chunk is written, the stream is       *)
(* closed, or the pipe breaks                                              *)
StdinStream ==
    /\ tty.mode = "Interactive" /\ ~tty.eof /\ ~tty.err
    /\ \/ /\ Len(tty.user) + Len(tty.events) + Len(tty.buffer) < MaxChunks
          /\ \E b \in {0, 1} : tty' = [tty EXCEPT !.user = Append(@, b)]
       \/ tty' = [tty EXCEPT !.eof = TRUE]
       \/ tty' = [tty EXCEPT !.err = TRUE]
    /\ UNCHANGED <<store, sPoison, handles, hPoison, next_handle, files, closeCalls, issued,
                   last, scen, conc, fault, seen, remote, host, cli>>

(* the first poll runs the block up to the first await:                    *)
(* let _guard = CleanupGuard(Some(cleanup)); let mut buffer = BytesMut::new() *)
TtyStart ==
    /\ tty.pc = "created"
    /\ tty' = [tty EXCEPT !.pc = "read", !.guard = TRUE, !.buffer = <<>>]
    /\ UNCHANGED <<store, sPoison, handles, hPoison, next_handle, files, closeCalls, issued,
                   last, scen, conc, fault, seen, remote, host, cli>>

(* u_stdin_rx.read_buf(&mut buffer).await completes: Err(e) or Ok(0) leave *)
(* the loop, the block ends and _guard is dropped; Ok(n) goes on to the    *)
(* Tty                                                                     *)
TtyRead ==
    /\ tty.pc = "read"
    /\ \/ /\ tty.err
          /\ tty' = [drop_guard(tty) EXCEPT !.pc = "done", !.way = "error"]
       \/ /\ ~tty.err /\ tty.user # <<>>
          /\ tty' = [tty EXCEPT !.buffer = <<Head(tty.user)>>, !.user = Tail(@),
                                !.pc = "event"]
       \/ /\ ~tty.err /\ tty.user = <<>> /\ tty.eof
          /\ tty' = [drop_guard(tty) EXCEPT !.pc = "done", !.way = "eof"]
    /\ UNCHANGED <<store, sPoison, handles, hPoison, next_handle, files, closeCalls, issued,
                   last, scen, conc, fault, seen, remote, host, cli>>

(* tty = tty.on_event(InputEvent::Raw(buffer.to_vec())).await completes;   *)
(* buffer.clear()                                                          *)
TtyOnEvent ==
    /\ tty.pc = "event"
    /\ tty' = [tty EXCEPT !.events = @ \o tty.buffer, !.buffer = <<>>, !.pc = "read"]
    /\ UNCHANGED <<store, sPoison, handles, hPoison, next_handle, files, closeCalls, issued,
                   last, scen, conc, fault, seen, remote, host, cli>>

(* the task is dropped at an await point: its locals are dropped, _guard   *)
(* among them                                                              *)
TtyDropTask ==
    /\ tty.pc \in {"read", "event"}
    /\ tty' = [drop_guard(tty) EXCEPT !.pc = "dropped", !.way = "dropped"]
    /\ UNCHANGED <<store, sPoison, handles, hPoison, next_handle, files, closeCalls, issued,
                   last, scen, conc, fault, seen, remote, host, cli>>

NextTty ==
    SetupTty \/ StdinStream \/ TtyStart \/ TtyRead \/ TtyOnEvent \/ TtyDropTask

SpecTty == Init /\ [][NextTty]_vars

----------------------------------------------------------------------------
(* Properties of the scripted sequences (specification Spec) *)

(* C1 -- round trip: after write_file(p, b) has succeeded, a handle opened  *)
(* on p with {read} and read with max_len >= len(b) returns exactly b: the  *)
(* same bytes, the same length, the same order.                             *)
C1_RoundTrip ==
    Script("roundtrip", 3) =>
        /\ last.op = "poll_read" /\ last.h = scen.h
        /\ last.res = "Ok" /\ last.poll = "Ready"
        /\ last.out = scen.b

(* a round trip of a full-length content whose bytes differ, read back *)
C1_Witness ==
    /\ Script("roundtrip", 3)
    /\ Len(scen.b) = MaxLen /\ scen.b[1] # scen.b[MaxLen]
    /\ last.out = scen.b

(* C4 -- write-through visibility: after a write of b through handle h at   *)
(* cursor k has returned, a handle newly opened on the same path, h still   *)
(* open, reads content that holds b at offset k.                            *)
C4_WriteThrough ==
    Script("writethrough", 3) =>
        /\ scen.h \in files /\ scen.h \in DOMAIN handles /\ scen.h2 # scen.h
        /\ last.op = "poll_read" /\ last.h = scen.h2 /\ last.res = "Ok"
        /\ Len(last.out) >= scen.k + Len(scen.b)
        /\ SubSeq(last.out, scen.k + 1, scen.k + Len(scen.b)) = scen.b

(* a write of a byte at a cursor past the start, seen by the new handle *)
C4_Witness ==
    /\ Script("writethrough", 3)
    /\ scen.k > 0 /\ scen.b = <<1>>
    /\ last.out[scen.k + 1] = 1 /\ last.out[scen.k] = 0

(* C6 -- end to end, as stated: open with {write, create}, write n bytes b, *)
(* close, open with {read}: read(n) returns exactly b and metadata(path)    *)
(* reports len = n.                                                         *)
C6_EndToEndAsStated ==
    /\ Script("e2e", 5) => (last.res = "Ok" /\ last.out = scen.b)
    /\ Script("e2e", 6) => (last.res = "Ok" /\ last.ret = Len(scen.b))

(* C6 -- end to end, as the code has it: read(n) returns exactly b, and     *)
(* metadata(path) reports the larger of n and the length the path had       *)
(* before the open (nothing truncates it); so len = n whenever the path was *)
(* absent or held at most n bytes.                                          *)
C6_EndToEnd ==
    /\ Script("e2e", 5) => (last.op = "poll_read" /\ last.res = "Ok" /\ last.out = scen.b)
    /\ Script("e2e", 6) =>
          /\ last.op = "metadata" /\ last.res = "Ok"
          /\ last.ret = Max(Len(scen.b), scen.k)
          /\ (scen.k <= Len(scen.b) => last.ret = Len(scen.b))

(* the scenario run on a path that did not exist, with n = MaxLen bytes *)
C6_Witness ==
    /\ Script("e2e", 6)
    /\ scen.k = 0 /\ Len(scen.b) = MaxLen
    /\ last.ret = MaxLen /\ scen.p \in DOMAIN store /\ store[scen.p] = scen.b

(* C5 -- snapshot on open: a handle never observes what another handle    *)
(* wrote after it was opened.  Step by step: an open copies the content the *)
(* path has at that moment; the buffer of an open handle changes only by a  *)
(* write through that same handle; a read returns the bytes of the handle's *)
(* own buffer from its cursor on and leaves the buffer alone.               *)
C5_SnapshotStep ==
    /\ \A f \in DOMAIN handles' \ DOMAIN handles :
          /\ last'.op = "open" /\ last'.ret = f
          /\ handles'[f].data =
                (IF handles'[f].path \in DOMAIN store THEN store[handles'[f].path] ELSE <<>>)
    /\ \A f \in DOMAIN handles \cap DOMAIN handles' :
          /\ handles'[f].data # handles[f].data => (last'.op = "poll_write" /\ last'.h = f)
          /\ (last'.op = "poll_read" /\ last'.h = f /\ last'.res = "Ok") =>
                /\ handles'[f].data = handles[f].data
                /\ handles'[f].pos <= Len(handles[f].data)
                /\ last'.out = SubSeq(handles[f].data, handles[f].pos + 1, handles'[f].pos)
                /\ handles'[f].pos = Min(handles[f].pos + Len(last'.out), Len(handles[f].data))

C5_Snapshot == [][C5_SnapshotStep]_vars

(* handle 1 was opened before handle 2 wrote to the path: the store holds   *)
(* handle 2's image, and the read on handle 1 just returned bytes of its    *)
(* own buffer that differ from the store's at the same offsets              *)
C5_Witness ==
    /\ last.op = "poll_read" /\ last.h = 1 /\ last.res = "Ok" /\ last.out # <<>>
    /\ {1, 2} \subseteq DOMAIN handles
    /\ handles[1].path = handles[2].path
    /\ handles[1].path \in DOMAIN store
    /\ store[handles[1].path] = handles[2].data
    /\ Len(handles[2].data) >= handles[1].pos
    /\ last.out = SubSeq(handles[1].data, handles[1].pos - Len(last.out) + 1, handles[1].pos)
    /\ last.out # SubSeq(handles[2].data, handles[1].pos - Len(last.out) + 1, handles[1].pos)

----------------------------------------------------------------------------
(* Properties of the facade with direct Backend Port calls (SpecPort) *)

(* C2 -- exactly one close: every id FileOpener::open returned has had      *)
(* handle_close called for it by the bridge exactly once as soon as its     *)
(* ProxyFile is gone, and not at all while the ProxyFile lives; whatever    *)
(* happened to the handle in between (reads, writes or seeks that failed or *)
(* panicked, the backend having lost the id), a live ProxyFile can be       *)
(* dropped.                                                                 *)
C2_CloseOnce ==
    /\ \A id \in Ids :
          closeCalls[id] = IF issued[id] > 0 /\ id \notin files THEN 1 ELSE 0
    /\ \A f \in files : issued[f] = 1 /\ ENABLED (DoDrop(f) /\ UNCHANGED <<scen, conc, env>>)
    /\ last.op = "drop" => (last.h \notin files /\ closeCalls[last.h] = 1)

(* a ProxyFile dropped after the backend had already lost its id, while the *)
(* other ProxyFile is still alive and unclosed                              *)
C2_Witness ==
    /\ last.op = "drop" /\ ~last.known
    /\ closeCalls[last.h] = 1
    /\ \E g \in files : g # last.h /\ closeCalls[g] = 0

(* C7 -- first poll completes: on a live ProxyFile, in every state, each of *)
(* poll_read, poll_write, poll_flush, poll_shutdown, poll_read_ready,       *)
(* poll_write_ready and poll_complete returns Ready whenever it returns     *)
(* (backend success or backend error), never Pending.                       *)
C7_NeverPending ==
    /\ last.poll # "Pending"
    /\ (last.op \in {"poll_read", "poll_write"} /\ last.res # "Panic") => last.poll = "Ready"
    /\ \A f \in files :
          /\ \A len \in Lens :
                LET r == poll_read(f, len)
                IN  r.poll # "Pending" /\ (r.res # "Panic" => r.poll = "Ready")
          /\ \A buf \in Contents, checks \in BOOLEAN :
                WriteInWindow(f, buf) =>
                   LET r == poll_write(f, buf, checks)
                   IN  r.poll # "Pending" /\ (r.res # "Panic" => r.poll = "Ready")
          /\ poll_flush(f).poll = "Ready"
          /\ poll_shutdown(f).poll = "Ready"
          /\ poll_read_ready(f).poll = "Ready"
          /\ poll_write_ready(f).poll = "Ready"
          /\ poll_complete(f).poll = "Ready"

(* a poll_read that got an error from the backend and completed with it *)
C7_Witness ==
    /\ last.op = "poll_read" /\ last.h \in files
    /\ last.bres = "InvalidFd" /\ last.res = "Other" /\ last.poll = "Ready"

(* C10 -- a read, write, seek or close on an id that is not in the handle   *)
(* table (a second close included) fails with InvalidHandle and changes     *)
(* neither the handle table nor the store.                                  *)
C10_InvalidHandle ==
    /\ (last.op \in {"handle_read", "handle_write", "handle_seek", "handle_close"}
            /\ issued[last.h] > 0 /\ ~last.known /\ last.res # "Panic") =>
          last.res = "InvalidFd"
    /\ ~hPoison =>
          \A id \in {i \in Ids \ DOMAIN handles : issued[i] > 0} :
             \A e \in {handle_read_cb(id, MaxLen), handle_write_cb(id, <<1>>, TRUE),
                       handle_seek_cb(id, SeekFrom("Start", 0)), handle_close_cb(id)} :
                e.handles = handles /\ e.store = store

----------------------------------------------------------------------------
(* Properties of seeks (SpecSeek) *)

(* C8 -- seek arithmetic: on a handle with cursor c and a buffer of L       *)
(* bytes, a seek leaves the cursor at n for Start(n), at c + n for          *)
(* Current(n) and at L + n for End(n), n of either sign, whenever that      *)
(* target is not below zero, returns that position, and leaves the buffer   *)
(* as it was; with L = 10 and c = 4, Current(2) gives 6, End(-3) gives 7    *)
(* and Start(0) gives 0.                                                    *)
C8_SeekArithmetic ==
    (Script("seek", 1) /\ last.res = "Ok") =>
        LET c == scen.k
            L == Len(scen.b)
            n == scen.seek.n
            target == CASE scen.seek.whence = "Start" -> n
                        [] scen.seek.whence = "Current" -> c + n
                        [] scen.seek.whence = "End" -> L + n
            cursor == handles[scen.h].pos
        IN  /\ target >= 0 => (cursor = target /\ last.bret = target)
            /\ handles[scen.h].data = scen.b
            /\ (L = 10 /\ c = 4 /\ scen.seek = SeekFrom("Current", 2)) => cursor = 6
            /\ (L = 10 /\ c = 4 /\ scen.seek = SeekFrom("End", 0 - 3)) => cursor = 7
            /\ (L = 10 /\ c = 4 /\ scen.seek = SeekFrom("Start", 0)) => cursor = 0

(* the 10-byte buffer with the cursor at 4, after End(-3) *)
C8_Witness ==
    /\ Script("seek", 1) /\ last.res = "Ok"
    /\ Len(scen.b) = 10 /\ scen.k = 4 /\ scen.seek = SeekFrom("End", 0 - 3)
    /\ handles[scen.h].pos = 7 /\ handles[scen.h].data = Pattern(10)

(* C9 -- a seek through a ProxyFile, start_seek followed by poll_complete,  *)
(* reports to the caller the position the backend's handle_seek returned.   *)
C9_SeekReportsPosition ==
    Script("seek", 2) =>
        /\ last.op = "poll_complete" /\ last.res = "Ok" /\ last.poll = "Ready"
        /\ last.ret = last.bret
        /\ last.ret = handles[scen.h].pos

----------------------------------------------------------------------------
(* Properties of concurrent opens (SpecConc) *)

(* C3 -- handle uniqueness: opens issued from several threads on any paths  *)
(* return pairwise distinct ids, and no id is returned again, closed or     *)
(* not: no id is returned twice, and an id a thread holds and has not yet   *)
(* returned is neither in the table, nor returned before, nor held by       *)
(* another thread.                                                          *)
C3_UniqueIds ==
    /\ \A id \in Ids : issued[id] <= 1
    /\ \A id \in DOMAIN handles : id < next_handle
    /\ \A t \in Threads :
          tpc[t] = "open_insert" =>
             /\ tloc[t].id \notin DOMAIN handles
             /\ tloc[t].id \in Ids /\ issued[tloc[t].id] = 0
             /\ \A u \in Threads \ {t} : tpc[u] = "open_insert" => tloc[u].id # tloc[t].id

(* an open entered while another thread was inside open has returned id 2 *)
(* after id 1 was returned and closed                                     *)
C3_Witness ==
    /\ issued[1] = 1 /\ issued[2] = 1
    /\ closeCalls[1] = 1 /\ 1 \notin DOMAIN handles
    /\ last.op = "open" /\ last.ret = 2
    /\ \E t \in Threads : tpc[t] = "idle" /\ tloc[t].ovl /\ tloc[t].id = 2

----------------------------------------------------------------------------
(* Properties of the whole-file operations (SpecFs) *)

(* C11 -- delete: after remove_file(p) has succeeded on an existing p,     *)
(* metadata(p) fails with NotFound (EntryNotFound), as it does for every   *)
(* path the store does not hold; every other path is in the store exactly  *)
(* if it was before, with the content it had, and metadata reports for it  *)
(* what it would have reported before.                                     *)
C11_Delete ==
    /\ \A p \in Paths : p \notin DOMAIN store /\ ~sPoison =>
          metadata_cb(p).res = "EntryNotFound"
    /\ (scen.name = "remove" /\ scen.step >= 1) =>
          /\ scen.p \in DOMAIN scen.st /\ scen.p \notin DOMAIN store
          /\ \A q \in Paths \ {scen.p} :
                /\ q \in DOMAIN store <=> q \in DOMAIN scen.st
                /\ q \in DOMAIN store => store[q] = scen.st[q]
    /\ Script("remove", 1) => (last.op = "remove_file" /\ last.res = "Ok")
    /\ Script("remove", 2) => (last.op = "metadata" /\ last.res = "EntryNotFound")
    /\ Script("remove", 3) =>
          /\ last.op = "metadata"
          /\ IF scen.q \in DOMAIN scen.st
             THEN last.res = "Ok" /\ last.ret = Len(scen.st[scen.q])
             ELSE last.res = "EntryNotFound"

(* a file removed while the other path held content: the removed path is  *)
(* not found, the other path still reports its length                     *)
C11_Witness ==
    /\ Script("remove", 3)
    /\ scen.q \in DOMAIN store /\ Len(store[scen.q]) = 2
    /\ Len(scen.st[scen.p]) = 1
    /\ last.res = "Ok" /\ last.ret = 2

(* C12 -- rename, as stated: rename(a, b) on an existing a makes         *)
(* metadata(a) fail with NotFound and makes metadata(b) and the content at *)
(* b what was at a; one backend rename call does it, and no state in       *)
(* between is there to be seen.                                            *)
C12_RenameAsStated ==
    /\ Script("rename", 1) =>
          /\ last.op = "rename" /\ last.res = "Ok" /\ last.calls = 1
          /\ scen.q \in DOMAIN store /\ store[scen.q] = scen.b
    /\ Script("rename", 2) => (last.op = "metadata" /\ last.res = "EntryNotFound")
    /\ Script("rename", 3) =>
          /\ last.op = "metadata" /\ last.res = "Ok" /\ last.ret = Len(scen.b)
          /\ store[scen.q] = scen.b

(* C12 -- rename, as the code has it: the same, except that metadata(a)    *)
(* fails with NotFound only when b is another path than a; rename(a, a)    *)
(* succeeds and leaves a with its content.                                 *)
C12_Rename ==
    /\ Script("rename", 1) =>
          /\ last.op = "rename" /\ last.res = "Ok" /\ last.calls = 1
          /\ scen.q \in DOMAIN store /\ store[scen.q] = scen.b
          /\ scen.p # scen.q => scen.p \notin DOMAIN store
    /\ Script("rename", 2) =>
          /\ last.op = "metadata"
          /\ IF scen.p # scen.q THEN last.res = "EntryNotFound"
             ELSE last.res = "Ok" /\ last.ret = Len(scen.b)
    /\ Script("rename", 3) =>
          /\ last.op = "metadata" /\ last.res = "Ok" /\ last.ret = Len(scen.b)
          /\ store[scen.q] = scen.b

(* a rename onto another path that held a different content *)
C12_Witness ==
    /\ Script("rename", 3)
    /\ scen.p # scen.q /\ scen.q \in DOMAIN scen.st
    /\ Len(scen.st[scen.q]) = 1 /\ Len(scen.b) = 2
    /\ scen.p \notin DOMAIN store /\ last.ret = 2

(* C15 -- error pass-through of the facade: what read_dir, create_dir,    *)
(* remove_dir, remove_file, rename, metadata, symlink_metadata and open    *)
(* return is what the one backend closure they call returned: its error,   *)
(* the same FsError, when it failed, and success only when it succeeded.   *)
C15_FacadeErrors ==
    last.op \in {"read_dir", "create_dir", "remove_dir", "remove_file", "rename",
                 "metadata", "symlink_metadata", "open"} =>
        /\ last.calls = 1
        /\ last.res = last.bres
        /\ fault # "" => last.res = fault

(* a read_dir whose backend closure answered PermissionDenied *)
C15_Witness ==
    /\ last.op = "read_dir"
    /\ fault = "PermissionDenied" /\ last.bres = "PermissionDenied"
    /\ last.res = "PermissionDenied"

(* C17 -- readlink and mount always fail with Unsupported: in every state  *)
(* and for every argument they answer Err(Unsupported) without calling a   *)
(* closure of FsCallbacks, and a step that performs one of them leaves the *)
(* store, the handle table, the id counter and the open files as they were.*)
C17_Unsupported ==
    /\ [](\A p \in Paths :
            /\ readlink(p).res = "Unsupported" /\ readlink(p).calls = 0
            /\ readlink(p).e = Cur
            /\ \A name \in {"m", ""}, fs \in {"fs", "other"} :
                  /\ mount(name, p, fs).res = "Unsupported" /\ mount(name, p, fs).calls = 0
                  /\ mount(name, p, fs).e = Cur)
    /\ [][last'.op \in {"readlink", "mount"} =>
            /\ last'.res = "Unsupported" /\ last'.calls = 0
            /\ UNCHANGED <<store, sPoison, handles, hPoison, next_handle,
                           files, closeCalls, issued>>]_vars

(* a mount and a readlink that acted on a store with a file, an open       *)
(* handle and a backend that answers with errors                           *)
C17_Witness ==
    /\ last.op \in {"readlink", "mount"} /\ last.res = "Unsupported"
    /\ DOMAIN store # {} /\ files # {} /\ fault # ""

(* C14 -- a failing write does not partially commit: whenever handle_write *)
(* returns an error (for any id, buffer and build), the state it leaves    *)
(* has the handle table (every buffer and cursor) and the store exactly    *)
(* as they were, and so has every step in which a write through a          *)
(* ProxyFile or directly on the port got an error from the backend.        *)
C14_WriteAllOrNothing ==
    /\ [](\A id \in Ids, buf \in Contents, checks \in BOOLEAN :
            LET e == handle_write_cb(id, buf, checks)
            IN  e.res \notin {"Ok", "Panic"} =>
                    /\ e.handles = handles /\ e.store = store
                    /\ e.hPoison = hPoison /\ e.sPoison = sPoison
                    /\ e.ret = 0)
    /\ [][(last'.op \in {"poll_write", "handle_write"}
             /\ last'.bres \notin {"Ok", "Panic"}) =>
            /\ handles' = handles /\ store' = store
            /\ last'.ret = 0]_vars

(* a write through a live ProxyFile whose id the host has closed, while    *)
(* another handle with a buffer and a stored file exist: InvalidFd         *)
C14_Witness ==
    /\ last.op = "poll_write" /\ last.bres = "InvalidFd"
    /\ last.h \in files /\ last.h \notin DOMAIN handles
    /\ DOMAIN handles # {} /\ DOMAIN store # {}

----------------------------------------------------------------------------
(* Properties of ProxyFile over a failing backend (SpecFile) *)

(* C13 -- a failure of handle_close at drop is swallowed: when the closure *)
(* answers the drop of a ProxyFile with an error, the drop still completes *)
(* normally (nothing reaches the caller), the file is gone, and the        *)
(* closure was called once for that file, not again.                       *)
C13_CloseSwallowed ==
    (last.op = "drop" /\ last.bres \notin {"Ok", "Panic"}) =>
        /\ last.res = "Ok"
        /\ last.h \notin files
        /\ last.calls = 1
        /\ closeCalls[last.h] = 1

(* a drop whose handle_close answered PermissionDenied *)
C13_Witness ==
    /\ last.op = "drop" /\ last.bres = "PermissionDenied"
    /\ last.res = "Ok" /\ closeCalls[last.h] = 1

(* C16 -- as stated: an error the backend reports for a read, a write or a *)
(* seek on a ProxyFile is what the consumer receives.                      *)
C16_FileErrorsAsStated ==
    (last.op \in {"poll_read", "poll_write", "start_seek"}
        /\ last.bres \notin {"Ok", "Panic"}) =>
        last.res = last.bres

(* C18 -- set_len and unlink on a ProxyFile always fail with Unsupported:  *)
(* in every state, for every open file and size, they answer               *)
(* Err(Unsupported) without calling a closure of FsCallbacks, and a step   *)
(* that performs one of them leaves the handle table (buffer, cursor,      *)
(* entry), the store and the open files as they were.                      *)
C18_FileUnsupported ==
    /\ [](\A f \in files :
            /\ unlink(f).res = "Unsupported" /\ unlink(f).calls = 0 /\ unlink(f).e = Cur
            /\ \A n \in Lens :
                  /\ set_len(f, n).res = "Unsupported" /\ set_len(f, n).calls = 0
                  /\ set_len(f, n).e = Cur)
    /\ [][last'.op \in {"set_len", "unlink"} =>
            /\ last'.res = "Unsupported" /\ last'.calls = 0
            /\ UNCHANGED <<store, sPoison, handles, hPoison, next_handle,
                           files, closeCalls, issued>>]_vars

(* a set_len to a size shorter than the buffer of a live handle that has   *)
(* a file in the store                                                     *)
C18_Witness ==
    /\ last.op = "set_len" /\ last.res = "Unsupported"
    /\ last.h \in files \cap DOMAIN handles
    /\ Len(handles[last.h].data) > 0
    /\ handles[last.h].path \in DOMAIN store

----------------------------------------------------------------------------
(* Properties of the wasm32 variant and of the flags (SpecRemote) *)

(* a callback object in which a required operation is missing or is not a *)
(* function                                                               *)
C20_Defective(obj) ==
    obj.kind = "object" /\ \E i \in DOMAIN Slots : obj.slots[i] # "function"

C20_FirstBad(obj) ==
    Slots[CHOOSE k \in DOMAIN Slots :
              /\ obj.slots[k] # "function"
              /\ \A j \in DOMAIN Slots : obj.slots[j] # "function" => k <= j]

(* C19 -- as stated: after every open, local or remote, the flags the      *)
(* backend's open received have the six fields read, write, create,        *)
(* create_new, truncate and append, each with the value of the caller's    *)
(* open options.                                                           *)
C19_FlagsAsStated ==
    seen.variant # "" =>
        /\ DOMAIN seen.flags =
              {"read", "write", "create", "create_new", "truncate", "append"}
        /\ \A k \in DOMAIN seen.flags : seen.flags[k] = seen.conf[k]

(* C22 -- as stated: the two variants report the same outcome.  The native *)
(* facade returns Ok exactly when the backend closure succeeded and the    *)
(* closure's error otherwise; so a filesystem-level call on the wasm32     *)
(* variant is Ok exactly when its JS callback reported success (returned   *)
(* the data, or true), and an error when it reported not found (null) or   *)
(* failure (false, or a throw).                                            *)
C22_VariantsAgreeAsStated ==
    last.op \in {Slots[i] : i \in 1..8} =>
        (last.res = "Ok") = (last.bres \in {"data", "true"})

(* C20 -- construction fails fast: a wasm32 ProxyFileSystem asked for with *)
(* a callback object in which one of the 13 operations is missing or not a *)
(* function is never built; by new and by create_runtime alike the         *)
(* construction fails, with the error naming the first such operation in   *)
(* the order of the 13, and no callback of the object has been invoked.    *)
(* Callbacks are only ever invoked on a filesystem that was built from an  *)
(* object whose 13 slots are all functions.                                *)
C20_FailFast ==
    /\ (remote.state # "none" /\ C20_Defective(remote.obj) /\ remote.target = "wasm32") =>
          /\ remote.state = "failed"
          /\ remote.calls = 0
          /\ remote.slot = C20_FirstBad(remote.obj)
          /\ last.op \in {"new", "create_runtime"} =>
                last.res = "JsError" /\ last.calls = 0
    /\ remote.state = "built" => ~C20_Defective(remote.obj)
    /\ remote.calls > 0 => remote.state = "built"

(* create_runtime failed on an object that lacks only fs_handle_close *)
C20_Witness ==
    /\ remote.via = "create_runtime" /\ remote.state = "failed"
    /\ remote.obj = JsObject([AllFunctions EXCEPT ![13] = "absent"])
    /\ remote.slot = "fs_handle_close"
    /\ remote.err = "callback 'fs_handle_close' is not a function"
    /\ remote.calls = 0

----------------------------------------------------------------------------
(* Properties of reads and writes through a handle (Spec, SpecFs) *)

(* C27 -- write at the cursor: in every state, for every handle, buffer of *)
(* bytes and build, a handle_write that returns Ok from cursor c over a    *)
(* buffer of length L leaves a buffer of length max(L, c + n) that holds   *)
(* the n bytes at [c, c + n), zeros at [L, c) and the old bytes elsewhere, *)
(* leaves the cursor at c + n and returns n; poll_write returns the same   *)
(* n; and a write performed at cursor k left the bytes at offset k.        *)
C27_WriteAtCursor ==
    /\ \A h \in DOMAIN handles, buf \in Contents, checks \in BOOLEAN :
          LET e == handle_write_cb(h, buf, checks)
              c == handles[h].pos
              old == handles[h].data
              L == Len(old)
              n == Len(buf)
          IN  e.res = "Ok" =>
                /\ c >= 0
                /\ Len(e.handles[h].data) = Max(L, c + n)
                /\ \A i \in 1..Max(L, c + n) :
                      e.handles[h].data[i] =
                          IF i > c /\ i <= c + n THEN buf[i - c]
                          ELSE IF i <= L THEN old[i] ELSE 0
                /\ e.handles[h].pos = c + n
                /\ e.ret = n
                /\ (h \in files => poll_write(h, buf, checks).ret = n)
    /\ Script("writethrough", 1) =>
          /\ last.op = "poll_write" /\ last.ret = Len(scen.b)
          /\ handles[scen.h].pos = scen.k + Len(scen.b)
          /\ Len(handles[scen.h].data) >= scen.k + Len(scen.b)
          /\ SubSeq(handles[scen.h].data, scen.k + 1, scen.k + Len(scen.b)) = scen.b

(* a byte written at cursor 1 of a handle on a path that has no stored     *)
(* bytes: the buffer is a zero followed by the byte                        *)
C27_Witness ==
    /\ Script("writethrough", 1) /\ scen.k = 1 /\ scen.b = <<1>>
    /\ handles[scen.h].data = <<0, 1>> /\ handles[scen.h].pos = 2
    /\ \A g \in DOMAIN handles : handles[g].path = scen.p
    /\ store[scen.p] = <<0, 1>>

(* C28 -- as stated: a read through a ProxyFile whose handle is in the     *)
(* table, with cursor c and a buffer of length L, returns the bytes at     *)
(* [c, min(c + n, L)) for the n asked, advances the cursor by the number   *)
(* of bytes returned, and changes neither the buffer, the store nor any    *)
(* other handle.                                                           *)
C28_ReadAsStated ==
    [][(last'.op = "poll_read" /\ last'.h \in DOMAIN handles
          /\ ~hPoison /\ ~sPoison /\ fault = "") =>
            LET h == last'.h
                c == handles[h].pos
                data == handles[h].data
            IN  /\ last'.res = "Ok"
                /\ c >= 0
                /\ \E n \in Lens :
                      last'.out = [i \in 1..(Max(Min(c + n, Len(data)), c) - c) |-> data[c + i]]
                /\ handles' = [handles EXCEPT ![h].pos = c + Len(last'.out)]
                /\ store' = store]_vars

(* C29 -- the store holds the writer's whole buffer: in every state a      *)
(* handle_write that returns Ok leaves the store with the handle's entire  *)
(* new buffer under the handle's path and every other path as it was; and  *)
(* whenever the operation performed last is a successful write through a   *)
(* handle, the stored content of its path is that handle's buffer, whatever*)
(* other handles on the path hold: no close or flush comes in between.     *)
C29_StoreIsLastImage ==
    /\ \A h \in DOMAIN handles, buf \in Contents, checks \in BOOLEAN :
          LET e == handle_write_cb(h, buf, checks)
          IN  e.res = "Ok" =>
                e.store = MapInsert(store, handles[h].path, e.handles[h].data)
    /\ (last.op = "poll_write" /\ last.res = "Ok") =>
          /\ last.h \in DOMAIN handles
          /\ handles[last.h].path \in DOMAIN store
          /\ store[handles[last.h].path] = handles[last.h].data

(* two handles on one path with different buffers: the store has the       *)
(* buffer of the one that wrote last, two bytes long                       *)
C29_Witness ==
    /\ last.op = "poll_write" /\ last.res = "Ok"
    /\ \E g \in DOMAIN handles \ {last.h} :
          /\ handles[g].path = handles[last.h].path
          /\ handles[g].data # handles[last.h].data
          /\ Len(handles[g].data) > 0
    /\ store[handles[last.h].path] = handles[last.h].data
    /\ Len(handles[last.h].data) = MaxLen

----------------------------------------------------------------------------
(* Properties of the metadata translation (SpecHost) *)

(* C21 -- as stated: the metadata the facade returns for a backend         *)
(* FsMetadata {is_file, is_dir, len} is a file exactly when is_file, is a  *)
(* directory exactly when is_dir, has the backend's len, and has accessed, *)
(* created and modified equal to zero.                                     *)
C21_TranslationAsStated ==
    (last.op = "metadata" /\ last.res = "Ok" /\ host.slot = "metadata") =>
        LET m == last.out[1]
        IN  /\ (m.ft = "file") = host.meta.is_file
            /\ (m.ft = "dir") = host.meta.is_dir
            /\ m.len = host.meta.len
            /\ m.accessed = 0 /\ m.created = 0 /\ m.modified = 0

(* C25 -- symlink_metadata is metadata: in every state and for every path  *)
(* symlink_metadata(p) has the result, the converted metadata and the      *)
(* backend effect of metadata(p), with one call of the metadata closure;   *)
(* and what a symlink_metadata call returned is what metadata returns for  *)
(* that path in the state the call left.                                   *)
C25_SymlinkAlias ==
    /\ \A p \in Paths :
          /\ symlink_metadata(p).res = metadata(p).res
          /\ symlink_metadata(p).meta = metadata(p).meta
          /\ symlink_metadata(p).e = metadata(p).e
          /\ symlink_metadata(p).calls = 1 /\ metadata(p).calls = 1
    /\ last.op = "symlink_metadata" =>
          /\ last.calls = 1
          /\ \E p \in Paths :
                /\ last.res = metadata(p).res
                /\ last.out = IF metadata(p).res = "Ok" THEN <<metadata(p).meta>> ELSE <<>>

(* symlink_metadata on a stored file of two bytes, on a path that is not   *)
(* there, or on a host closure that reports a directory                    *)
C25_Witness ==
    /\ last.op = "symlink_metadata"
    /\ \/ last.res = "Ok" /\ last.out[1].len = 2 /\ host.slot = ""
       \/ last.res = "Ok" /\ last.out[1].ft = "dir"

(* C26 -- read_dir: when the closure answers Ok(entries) the facade hands  *)
(* back as many entries, in the same order, the i-th with the directory's  *)
(* path joined with the i-th name and with the converted metadata of the   *)
(* i-th entry; when it answers an error, that error and no entries.        *)
C26_ReadDir ==
    last.op = "read_dir" =>
        LET entries == IF host.slot = "read_dir" THEN host.entries ELSE <<>>
        IN  IF fault = ""
            THEN /\ last.res = "Ok"
                 /\ Len(last.out) = Len(entries)
                 /\ \E p \in Paths : \A i \in DOMAIN entries :
                       /\ last.out[i].path = <<p, entries[i].name>>
                       /\ last.out[i].metadata = to_vfs_metadata(entries[i].metadata)
            ELSE last.res = fault /\ last.out = <<>>

(* a listing of two entries with different names and kinds *)
C26_Witness ==
    /\ last.op = "read_dir" /\ last.res = "Ok" /\ Len(last.out) = 2
    /\ last.out[1].path[2] = "y" /\ last.out[2].path[2] = "x"
    /\ last.out[1].metadata.ft = "dir" /\ last.out[2].metadata.ft = "file"
    /\ last.out[2].metadata.len = MaxLen

----------------------------------------------------------------------------
(* Properties of the open options (SpecOpen) *)

(* C23 -- as stated: an open through the facade with create = false and   *)
(* create_new = false on a path that has no entry in the store fails with *)
(* NotFound, and the step allocates no id, adds no handle and no store    *)
(* entry.                                                                 *)
C23_OpenMissingAsStated ==
    [][(last'.op = "open" /\ seen'.variant = "local"
          /\ ~seen'.conf.create /\ ~seen'.conf.create_new
          /\ ~sPoison /\ ~hPoison
          /\ seen'.path \notin DOMAIN store) =>
            /\ last'.res = "EntryNotFound"
            /\ next_handle' = next_handle
            /\ handles' = handles
            /\ store' = store]_vars

(* C24 -- as stated: right after an open through the facade with write =  *)
(* true and truncate = true has succeeded, the handle's buffer is empty   *)
(* and the metadata closure reports length 0 for the path.                *)
C24_TruncateAsStated ==
    (last.op = "open" /\ last.res = "Ok" /\ seen.variant = "local"
        /\ seen.conf.write /\ seen.conf.truncate) =>
        /\ handles[last.h].data = <<>>
        /\ seen.path \in DOMAIN store =>
              metadata_cb(seen.path).res = "Ok" /\ metadata_cb(seen.path).ret = 0

----------------------------------------------------------------------------
(* Properties of the cursor beyond the ends of the buffer *)

(* C31 -- seek beyond the end, then write: in every state, a seek on an    *)
(* open file whose target n lies beyond the L bytes of the buffer returns  *)
(* Ok, leaves the cursor at n and changes neither the buffer nor the       *)
(* store; on a handle whose cursor n is beyond the L bytes of its buffer,  *)
(* a write of bytes b returns Ok and leaves a buffer that keeps the old    *)
(* bytes at [0, L), holds zeros at [L, n) and b at [n, n + len(b)), and    *)
(* the store holds that buffer; and a seek that was performed and left the *)
(* cursor beyond the end changed no buffer and no stored content.          *)
C31_SeekPastEnd ==
    /\ [](\A h \in files \cap DOMAIN handles :
            LET old == handles[h].data
                L == Len(old)
                c == handles[h].pos
            IN  (~hPoison /\ ~sPoison) =>
                  /\ \A seek \in Seeks :
                        LET n == CASE seek.whence = "Start" -> seek.n
                                   [] seek.whence = "Current" -> c + seek.n
                                   [] seek.whence = "End" -> L + seek.n
                            e == handle_seek_cb(h, seek)
                        IN  n > L =>
                              /\ e.res = "Ok" /\ start_seek(h, seek).res = "Ok"
                              /\ e.handles[h].pos = n
                              /\ e.handles[h].data = old
                              /\ e.store = store
                  /\ c > L =>
                        \A b \in Contents, checks \in BOOLEAN :
                           LET e == handle_write_cb(h, b, checks)
                               data == e.handles[h].data
                           IN  /\ e.res = "Ok" /\ poll_write(h, b, checks).res = "Ok"
                               /\ Len(data) = c + Len(b)
                               /\ \A i \in 1..Len(data) :
                                     data[i] = IF i <= L THEN old[i]
                                               ELSE IF i <= c THEN 0 ELSE b[i - c]
                               /\ e.store[handles[h].path] = data)
    /\ [][(last'.op = "start_seek" /\ last'.res = "Ok"
             /\ handles'[last'.h].pos > Len(handles'[last'.h].data)) =>
              /\ store' = store
              /\ DOMAIN handles' = DOMAIN handles
              /\ \A g \in DOMAIN handles : handles'[g].data = handles[g].data]_vars

(* a seek has left the cursor at 2 on a buffer of one byte, which is also  *)
(* what the store holds                                                    *)
C31_Witness ==
    /\ last.op = "start_seek" /\ last.res = "Ok" /\ last.h \in files
    /\ handles[last.h].pos = 2 /\ handles[last.h].data = <<1>>
    /\ store[handles[last.h].path] = <<1>>
    /\ ~hPoison /\ ~sPoison

(* C32 -- a seek whose sum is below zero: a seek End(n) or Current(n)      *)
(* whose arithmetic result r is below zero returns Ok, and the position it *)
(* returns and leaves as the cursor is the u64 that reads r as an i64,     *)
(* that is r modulo 2^64, which is not zero; the buffer is as it was.      *)
C32_NegativeSeek ==
    /\ \A f \in files \cap DOMAIN handles, seek \in SeekInputs :
          LET r == IF seek.whence = "End" THEN Len(handles[f].data) + seek.n
                   ELSE handles[f].pos + seek.n
              e == handle_seek_cb(f, seek)
          IN  (seek.whence \in {"End", "Current"} /\ r < 0 /\ ~hPoison) =>
                /\ e.res = "Ok" /\ start_seek(f, seek).res = "Ok"
                /\ e.ret = r /\ e.ret # 0
                /\ e.handles[f].pos = r
    /\ (Script("seek", 1) /\ scen.seek.whence \in {"End", "Current"}) =>
          LET r == IF scen.seek.whence = "End" THEN Len(scen.b) + scen.seek.n
                   ELSE scen.k + scen.seek.n
          IN  r < 0 =>
                /\ last.res = "Ok" /\ last.bres = "Ok"
                /\ last.bret = r
                /\ handles[scen.h].pos = r /\ handles[scen.h].pos # 0
                /\ handles[scen.h].data = scen.b

(* End(-3) on a buffer of two bytes: the cursor reads -1, the u64 2^64 - 1 *)
C32_Witness ==
    /\ Script("seek", 1) /\ last.res = "Ok"
    /\ scen.seek = SeekFrom("End", 0 - 3) /\ Len(scen.b) = 2
    /\ handles[scen.h].pos = 0 - 1 /\ last.bret = 0 - 1

(* C33 -- rename of a path that is not there: in every state, for every    *)
(* `from` that has no entry in the store and every `to`, the rename        *)
(* closure answers NotFound and leaves the store as it is, and the facade  *)
(* hands that NotFound on; and a rename that was performed and answered    *)
(* NotFound changed nothing in the store.                                  *)
C33_RenameMissing ==
    /\ [](\A from \in Paths \ DOMAIN store, to \in Paths :
            ~sPoison =>
              /\ rename_cb(from, to).res = "EntryNotFound"
              /\ rename_cb(from, to).store = store
              /\ fault = "" => Callback(rename_cb(from, to)).res = "EntryNotFound")
    /\ [][(last'.op = "rename" /\ last'.bres = "EntryNotFound") =>
              (last'.res = "EntryNotFound" /\ store' = store)]_vars

(* a rename answered NotFound while the other path holds two bytes *)
C33_Witness ==
    /\ last.op = "rename" /\ last.res = "EntryNotFound" /\ fault = ""
    /\ DOMAIN store = {"/b"} /\ store["/b"] = <<1, 0>>

(* C36 -- as stated: a read through a ProxyFile whose handle has its       *)
(* cursor beyond the end of its buffer returns Ok with no bytes, and the   *)
(* buffer is as it was.                                                    *)
C36_ReadPastEndAsStated ==
    [][(last'.op = "poll_read" /\ last'.h \in DOMAIN handles /\ ~hPoison
          /\ handles[last'.h].pos > Len(handles[last'.h].data)) =>
            /\ last'.res = "Ok" /\ last'.poll = "Ready"
            /\ last'.out = <<>>
            /\ last'.h \in DOMAIN handles'
            /\ handles'[last'.h].data = handles[last'.h].data]_vars

(* C37 -- as stated: in every state, a read through an open ProxyFile with *)
(* a ReadBuf of any remaining capacity completes (nothing unwinds through  *)
(* it) and delivers at most that many bytes, whatever the length of the    *)
(* data the handle_read closure returns.                                   *)
C37_ReadFitsAsStated ==
    \A f \in files, len \in Lens :
        (~hPoison /\ fault = "") =>
            /\ poll_read(f, len).res # "Panic"
            /\ poll_read(f, len).poll = "Ready"
            /\ Len(poll_read(f, len).out) <= len

----------------------------------------------------------------------------
(* Properties of the handle table *)

(* C34 -- as stated: in every state the ids in the handle table are the    *)
(* ids that a successful open returned and whose ProxyFile has not been    *)
(* dropped; no id was returned by two opens; and when no ProxyFile is      *)
(* alive the table is empty.                                               *)
C34_HandleTableAsStated ==
    /\ DOMAIN handles = files
    /\ \A i \in files : issued[i] = 1 /\ closeCalls[i] = 0
    /\ files = {} => handles = <<>>

(* C38 -- open handles outlive their path: a remove_file or a rename that  *)
(* was performed left the handle table as it was (the same ids, each with  *)
(* its path, buffer and cursor); in every state where no closure has       *)
(* panicked, a write through an open file whose cursor has not wrapped     *)
(* below zero returns Ok and leaves in the store, at the handle's path,    *)
(* the whole buffer of the handle; and such a write that was performed on  *)
(* a handle whose path had no entry in the store made the path exist again *)
(* with the handle's whole buffer.                                         *)
C38_HandlesOutliveRemove ==
    /\ [](\A h \in files, b \in Contents, checks \in BOOLEAN :
            LET e == handle_write_cb(h, b, checks)
            IN  (~hPoison /\ ~sPoison) =>
                  /\ h \in DOMAIN handles
                  /\ handles[h].pos >= 0 =>
                        /\ e.res = "Ok" /\ poll_write(h, b, checks).res = "Ok"
                        /\ handles[h].path \in DOMAIN e.store
                        /\ e.store[handles[h].path] = e.handles[h].data)
    /\ [][last'.op \in {"remove_file", "rename"} => handles' = handles]_vars
    /\ [][(last'.op = "poll_write" /\ ~hPoison /\ ~sPoison /\ handles[last'.h].pos >= 0
             /\ handles[last'.h].path \notin DOMAIN store) =>
              /\ last'.res = "Ok"
              /\ handles[last'.h].path \in DOMAIN store'
              /\ store'[handles[last'.h].path] = handles'[last'.h].data
              /\ Len(handles'[last'.h].data) >= Len(handles[last'.h].data)]_vars

(* a file is open on a path, with two bytes in its buffer and its cursor   *)
(* at 1, and a remove_file has just taken the path out of the store        *)
C38_Witness ==
    /\ last.op = "remove_file" /\ last.res = "Ok"
    /\ \E h \in files :
          /\ handles[h].path \notin DOMAIN store
          /\ handles[h].data = <<1, 0>> /\ handles[h].pos = 1

----------------------------------------------------------------------------
(* Properties of the two locks of the backend (SpecConc) *)

(* C35 -- as stated: no state has one thread holding the store lock and    *)
(* waiting for the handle-table lock while another thread holds the        *)
(* handle-table lock and waits for the store lock; a call that has taken   *)
(* a lock can always go on.                                                *)
C35_NoLockCycleAsStated ==
    ~ \E t \in Threads, u \in Threads :
          /\ t # u
          /\ sLock = t /\ tpc[t] = "open_insert"
          /\ hLock = u /\ tpc[u] = "write_store"

----------------------------------------------------------------------------
(* Properties of the subagent CLI (SpecCli) *)

(* C39 -- as stated: no id was given to two spawn commands, and no request *)
(* file was written over by a later spawn.                                 *)
C39_FreshIdsAsStated ==
    /\ \A i \in SpawnIds : cli.used[i] <= 1
    /\ cli.lost = {}

----------------------------------------------------------------------------
(* Properties of the stdin copy task (SpecTty) *)

(* C40 -- cleanup once, at the end: the cleanup closure has never run more *)
(* than once; when the copy task has ended, by a read of 0 bytes, by a     *)
(* read error or by being dropped, it has run once and has called          *)
(* stdin_pipe.close(); and while the task has not ended (it is queued, or  *)
(* inside its loop at one of the two awaits) it has not run.               *)
C40_CleanupOnce ==
    /\ tty.cleanups <= 1
    /\ tty.pc \in {"done", "dropped"} =>
          /\ tty.cleanups = 1 /\ tty.closed /\ ~tty.guard
          /\ tty.way \in {"eof", "error", "dropped"}
    /\ tty.pc \in {"created", "read", "event"} => tty.cleanups = 0 /\ ~tty.closed
    /\ tty.mode # "Interactive" => tty.cleanups = 0 /\ ~tty.closed

(* the task was dropped while the Tty was handling the second chunk *)
C40_Witness ==
    /\ tty.pc = "dropped" /\ tty.way = "dropped"
    /\ tty.cleanups = 1 /\ tty.closed
    /\ Len(tty.events) = 1 /\ Len(tty.buffer) = 1

TypeOK ==
    /\ DOMAIN store \subseteq Paths
    /\ \A p \in DOMAIN store : store[p] \in Contents
    /\ DOMAIN handles \subseteq Ids
    /\ \A i \in DOMAIN handles :
          /\ handles[i].path \in Paths
          /\ handles[i].data \in Contents
          /\ handles[i].pos \in (0 - MaxBack)..MaxLen
    /\ next_handle \in 1..(MaxOpens + 1)
    /\ files \subseteq Ids

====
